---- MODULE Spec2Model ----
(***************************************************************************)
(* Model of the OpenSky client (src/src/api/opensky_client.py): the OAuth2 *)
(* token cache, the authenticated GET, the binding of the /states/all      *)
(* response to a row set and the flights fetches; and of the pipeline      *)
(* (src/src/etl/data_pipeline.py): transform_states and aggregate_metrics. *)
(*                                                                         *)
(* Optional values (Python None, JSON null, an absent key or header) are   *)
(* sequences of length at most one: <<>> is None, <<v>> is the value v.    *)
(* Text that the code converts (the callsign, the retry-after header) is a *)
(* sequence of one-character strings.                                      *)
(***************************************************************************)
EXTENDS Integers, Sequences, FiniteSets, TLC

VARIABLES
    now,               \* time.time(), in seconds
    ticks,             \* how many clock steps have been taken (bounded)
    access_token,      \* OpenSkyClient.access_token
    token_expires_at,  \* OpenSkyClient.token_expires_at
    real_expiry,       \* issue time + expires_in of the cached token (the server's view)
    issued_at,         \* the time the cached token was cached, line 40
    threads,           \* where each concurrent caller of _get_access_token stands
    cycle,             \* where the update_data callback stands, and what it holds
    call,              \* what the most recent call did and returned
    run                \* one pass of the pipeline: df_raw, transformed, metrics

vars == <<now, ticks, access_token, token_expires_at, real_expiry, issued_at, threads,
          cycle, call, run>>
client == <<now, ticks, access_token, token_expires_at, real_expiry, issued_at, threads,
            cycle, call>>

(***************************************************************************)
(* Bounds of the model.                                                    *)
(***************************************************************************)
T0 == 1000          \* the clock at construction
MaxTicks == 2       \* clock steps per behaviour
MaxRows == 2        \* rows in a states array
MaxBatch == 2       \* state vectors in a batch given to the pipeline

(***************************************************************************)
(* Program constants.                                                      *)
(***************************************************************************)
SafetyMargin == 300
DefaultExpiresIn == 1800
DefaultRetryAfter == 60
RateLimitStatus == 429
CategoryWidth == 18
DefaultCategory == 0
DefaultExtended == 1
DayBack == 86400

None == <<>>
Some(v) == <<v>>
IsNone(o) == Len(o) = 0

Min(a, b) == IF a < b THEN a ELSE b

\* Python truthiness of an optional number, an optional string, an optional list.
TruthyNum(o) == Len(o) > 0 /\ o[1] # 0
TruthyStr(o) == Len(o) > 0 /\ o[1] # ""
TruthyList(o) == Len(o) > 0 /\ Len(o[1]) > 0

(***************************************************************************)
(* requests.Response.raise_for_status: raises HTTPError for 4xx and 5xx.   *)
(***************************************************************************)
\* variant: the status is never checked
RaisesNever(status) == FALSE
RaisesForStatus(status) == 400 <= status /\ status < 600

(***************************************************************************)
(* _get_access_token, line 25: the cached token is returned when both      *)
(* fields are truthy and the clock is before the cached expiry.            *)
(***************************************************************************)
\* variant: the expiry instant itself still counts as valid
CacheValidInclusive(tok, exp, t) == TruthyStr(tok) /\ TruthyNum(exp) /\ t <= exp[1]
CacheValid(tok, exp, t) == TruthyStr(tok) /\ TruthyNum(exp) /\ t < exp[1]

\* token_data.get("expires_in", 1800); variant: without the default
ExpiresInNoDefault(body) == IF IsNone(body.expires_in) THEN 0 ELSE body.expires_in[1]
ExpiresIn(body) == IF IsNone(body.expires_in) THEN DefaultExpiresIn ELSE body.expires_in[1]

\* line 40: time.time() + expires_in - 300; variant: without the margin
CachedExpiryNoMargin(t, body) == t + ExpiresIn(body)
CachedExpiry(t, body) == t + ExpiresIn(body) - SafetyMargin

(***************************************************************************)
(* _get_access_token as a function of the cache (tok, exp), the clock t at *)
(* the check, the token endpoint's response tr and the seconds lat the     *)
(* POST takes.  tr.body is the JSON document of the response, None when    *)
(* the body is not JSON (response.json() then raises).  The result names   *)
(* the exception raised ("ok" when none), the returned token, the cache    *)
(* afterwards and the clock afterwards.                                    *)
(***************************************************************************)
\* the two fields after a return or a raise before line 38: as they were;
\* variant: a failed lookup clears them
FieldsCleared(tok, exp) == [access_token |-> None, token_expires_at |-> None]
FieldsKept(tok, exp) == [access_token |-> tok, token_expires_at |-> exp]

GetAccessToken(tok, exp, t, tr, lat) ==
    LET kept(e, posts) ==
            [outcome |-> e, posts |-> posts, issued |-> FALSE,
             token |-> IF e = "ok" THEN tok ELSE None,
             access_token |-> FieldsKept(tok, exp).access_token,
             token_expires_at |-> FieldsKept(tok, exp).token_expires_at,
             end |-> IF posts = 0 THEN t ELSE t + lat]
    IN  IF CacheValid(tok, exp, t) THEN kept("ok", 0)
        ELSE IF RaisesForStatus(tr.status) THEN kept("HTTPError", 1)
        ELSE IF IsNone(tr.body) THEN kept("JSONDecodeError", 1)
        ELSE IF IsNone(tr.body[1].access_token) THEN kept("KeyError", 1)
        ELSE [outcome |-> "ok", posts |-> 1, issued |-> TRUE,
              token |-> tr.body[1].access_token,
              access_token |-> tr.body[1].access_token,
              token_expires_at |-> Some(CachedExpiry(t + lat, tr.body[1])),
              end |-> t + lat]

(***************************************************************************)
(* int(text) for the decimal text of the retry-after header.               *)
(***************************************************************************)
DigitValue(c) ==
    CASE c = "0" -> 0 [] c = "1" -> 1 [] c = "2" -> 2 [] c = "3" -> 3 [] c = "4" -> 4
      [] c = "5" -> 5 [] c = "6" -> 6 [] c = "7" -> 7 [] c = "8" -> 8 [] c = "9" -> 9

RECURSIVE ParseInt(_)
ParseInt(s) ==
    IF Len(s) = 0 THEN 0
    ELSE ParseInt(SubSeq(s, 1, Len(s) - 1)) * 10 + DigitValue(s[Len(s)])

\* line 55: int(response.headers.get('X-Rate-Limit-Retry-After-Seconds', 60));
\* variant: without the default
RetryAfterNoDefault(header) == IF IsNone(header) THEN 0 ELSE ParseInt(header[1])
RetryAfter(header) == IF IsNone(header) THEN DefaultRetryAfter ELSE ParseInt(header[1])

\* The JSON document of a response that has none the code reads.
NoJson == [states |-> [has |-> FALSE, null |-> FALSE, rows |-> <<>>], time |-> 0]

(***************************************************************************)
(* _make_request, lines 45-60: one token lookup, then at most one GET.  dr *)
(* is the data endpoint's response: status, retry-after header, whether    *)
(* the body decodes as JSON (line 60), and the decoded document.           *)
(***************************************************************************)
\* lines 51-60 assign neither field, whatever the status of the response;
\* variant: a token the data endpoint rejects is forgotten
FieldAfterRejection(field, status) == IF status = 401 THEN None ELSE field
FieldAfterGet(field, status) == field

\* lines 48-60: the GET with the bearer token, and what becomes of the
\* response dr
SendGet(token, dr) ==
    LET sent == [outcome |-> "ok", bearer |-> token, retry_after |-> None,
                 data |-> NoJson]
    IN  IF dr.status = RateLimitStatus
        THEN [sent EXCEPT !.outcome = "Exception",
                          !.retry_after = Some(RetryAfter(dr.header))]
        ELSE IF RaisesForStatus(dr.status)
        THEN [sent EXCEPT !.outcome = "HTTPError"]
        ELSE IF ~dr.decodes
        THEN [sent EXCEPT !.outcome = "JSONDecodeError"]
        ELSE [sent EXCEPT !.data = dr.json]

MakeRequest(tok, exp, t, tr, lat, dr) ==
    LET auth == GetAccessToken(tok, exp, t, tr, lat)
        base == [outcome |-> auth.outcome, posts |-> auth.posts,
                 issued |-> auth.issued, token |-> auth.token, gets |-> 0,
                 bearer |-> None, retry_after |-> None, data |-> NoJson,
                 access_token |-> auth.access_token,
                 token_expires_at |-> auth.token_expires_at, end |-> auth.end]
        got == SendGet(auth.token, dr)
    IN  IF auth.outcome # "ok" THEN base
        ELSE [base EXCEPT !.gets = 1, !.bearer = got.bearer,
                          !.outcome = got.outcome,
                          !.retry_after = got.retry_after,
                          !.data = got.data,
                          !.access_token = FieldAfterGet(auth.access_token, dr.status),
                          !.token_expires_at =
                              FieldAfterGet(auth.token_expires_at, dr.status)]

(***************************************************************************)
(* get_states, lines 76-85: the query parameters.  A query q holds the     *)
(* arguments time_secs, icao24, bbox (optional) and extended.  Each `if x` *)
(* is Python truthiness: None, 0, an empty list and an empty dict are all  *)
(* false.  bbox is a dict, modelled as a function from its keys.           *)
(***************************************************************************)
TruthyDict(o) == Len(o) > 0 /\ DOMAIN o[1] # {}

TimeGiven(q) == TruthyNum(q.time_secs)

ParamKeys(q) ==
    {"extended"}
      \cup (IF TimeGiven(q) THEN {"time"} ELSE {})
      \cup (IF TruthyList(q.icao24) THEN {"icao24"} ELSE {})
      \cup (IF TruthyDict(q.bbox) THEN DOMAIN q.bbox[1] ELSE {})

Params(q) ==
    [k \in ParamKeys(q) |->
        CASE k = "extended" -> q.extended
          [] k = "time" -> q.time_secs[1]
          [] k = "icao24" -> q.icao24[1]
          [] OTHER -> q.bbox[1][k]]

(***************************************************************************)
(* get_states, lines 89-126: binding the document to a row set.  A raw row *)
(* is a sequence of cells, a cell an optional value.  A DataFrame is its   *)
(* column names in order and its rows, each a function from the names.     *)
(***************************************************************************)
Columns ==
    << "icao24", "callsign", "origin_country", "time_position",
       "last_contact", "longitude", "latitude", "baro_altitude",
       "on_ground", "velocity", "true_track", "vertical_rate",
       "sensors", "geo_altitude", "squawk", "spi", "position_source" >>

EmptyFrame == [columns |-> <<>>, rows |-> <<>>]

Range(s) == {s[i] : i \in 1..Len(s)}
ColIndex(cols, c) == CHOOSE j \in 1..Len(cols) : cols[j] = c

\* data.get('states'): None for an absent key and for null
StatesOf(data) ==
    IF data.states.has /\ ~data.states.null THEN Some(data.states.rows) ELSE None

\* line 89: not data.get('states'); variant: `is None` in its place
NoStatesOnlyNone(data) == IsNone(StatesOf(data))
NoStates(data) == ~TruthyList(StatesOf(data))

\* line 93: data['states'][0] if data['states'] else []
FirstRow(rows) == IF Len(rows) > 0 THEN rows[1] ELSE <<>>

\* lines 99-108: the schema, with category appended for 18 columns
Schema(num_columns) ==
    IF num_columns = CategoryWidth THEN Append(Columns, "category") ELSE Columns

\* columns[:num_columns]
Prefix(s, n) == SubSeq(s, 1, Min(n, Len(s)))

\* pandas pads a ragged list of rows to its widest row with None
WidestRow(rows) ==
    IF Len(rows) = 0 THEN 0
    ELSE CHOOSE w \in {Len(rows[i]) : i \in 1..Len(rows)} :
             \A i \in 1..Len(rows) : Len(rows[i]) <= w

Cell(row, j) == IF j <= Len(row) THEN row[j] ELSE None

\* str.strip on a text
RECURSIVE LStrip(_)
LStrip(s) == IF Len(s) > 0 /\ s[1] = " " THEN LStrip(Tail(s)) ELSE s
RECURSIVE RStrip(_)
RStrip(s) ==
    IF Len(s) > 0 /\ s[Len(s)] = " " THEN RStrip(SubSeq(s, 1, Len(s) - 1)) ELSE s
Strip(s) == RStrip(LStrip(s))

\* line 118: Series.str.strip leaves a missing value missing
StripCell(cell) == IF IsNone(cell) THEN None ELSE Some(Strip(cell[1]))

\* line 119: astype(bool); bool(None) is False
AsBool(cell) == IF IsNone(cell) THEN Some(FALSE) ELSE Some(cell[1] = TRUE)

\* line 115: pd.to_datetime(seconds, unit='s')
ToDatetime(cell) == Some([unit |-> "s", epoch |-> cell[1]])

\* lines 113-124 for one row, once the frame is known to be constructible.
\* Variants of the category cell: decided row by row; without the default of
\* lines 122-124; read one cell too early.
CategoryOfPerRow(row, cols) ==
    IF Len(row) >= CategoryWidth THEN row[CategoryWidth] ELSE Some(DefaultCategory)
CategoryOfNoDefault(row, cols) ==
    IF "category" \in Range(cols) THEN Cell(row, ColIndex(cols, "category")) ELSE None
CategoryOfShifted(row, cols) ==
    IF "category" \in Range(cols) THEN Cell(row, ColIndex(cols, "category") - 1)
    ELSE Some(DefaultCategory)
CategoryOf(row, cols) ==
    IF "category" \in Range(cols) THEN Cell(row, ColIndex(cols, "category"))
    ELSE Some(DefaultCategory)

BindRow(row, cols, time) ==
    [c \in Range(cols) \cup {"request_time", "request_datetime", "category"} |->
        CASE c = "request_time" -> Some(time)
          [] c = "request_datetime" -> ToDatetime(Some(time))
          [] c = "category" -> CategoryOf(row, cols)
          [] c = "callsign" -> StripCell(Cell(row, ColIndex(cols, c)))
          [] c = "on_ground" -> AsBool(Cell(row, ColIndex(cols, c)))
          [] OTHER -> Cell(row, ColIndex(cols, c))]

FrameColumns(cols) ==
    cols \o << "request_time", "request_datetime" >>
         \o (IF "category" \in Range(cols) THEN <<>> ELSE << "category" >>)

(***************************************************************************)
(* The binding as a whole: the exception raised ("ok" when none), the      *)
(* number of columns counted on the first row, and the frame returned.     *)
(*   pd.DataFrame(rows, columns=names) raises ValueError unless the number *)
(*   of names equals the width of the widest row;                          *)
(*   df['callsign'] and df['on_ground'] raise KeyError on a frame without  *)
(*   that column.                                                          *)
(***************************************************************************)
BindStates(data) ==
    IF NoStates(data)
    THEN [outcome |-> "ok", num_columns |-> 0, df |-> EmptyFrame]
    ELSE
      LET rows == data.states.rows
          n == Len(FirstRow(rows))
          cols == Prefix(Schema(n), n)
          fail(e) == [outcome |-> e, num_columns |-> n, df |-> EmptyFrame]
      IN  IF Len(cols) # WidestRow(rows) THEN fail("ValueError")
          ELSE IF "callsign" \notin Range(cols) THEN fail("KeyError")
          ELSE IF "on_ground" \notin Range(cols) THEN fail("KeyError")
          ELSE [outcome |-> "ok", num_columns |-> n,
                df |-> [columns |-> FrameColumns(cols),
                        rows |-> [i \in 1..Len(rows) |->
                                     BindRow(rows[i], cols, data.time)]]]

(***************************************************************************)
(* get_states as a whole.                                                  *)
(***************************************************************************)
GetStatesResult(tok, exp, t, q, tr, lat, dr) ==
    LET req == MakeRequest(tok, exp, t, tr, lat, dr)
        bound == BindStates(req.data)
        r0 == [outcome |-> req.outcome, posts |-> req.posts,
               issued |-> req.issued, token |-> req.token, gets |-> req.gets,
               bearer |-> req.bearer, retry_after |-> req.retry_after,
               params |-> IF req.gets = 1 THEN Some(Params(q)) ELSE None,
               num_columns |-> 0, df |-> EmptyFrame,
               access_token |-> req.access_token,
               token_expires_at |-> req.token_expires_at, end |-> req.end]
    IN  IF req.outcome # "ok" THEN r0
        ELSE [r0 EXCEPT !.outcome = bound.outcome,
                        !.num_columns = bound.num_columns, !.df = bound.df]

(***************************************************************************)
(* get_flights_interval, get_arrivals and get_departures, lines 128-165:   *)
(* the same body around three endpoints.  Everything _make_request raises  *)
(* is caught, and a falsy document (an empty array) is an empty frame.     *)
(* The document is an array of flight objects, all with the keys           *)
(* FlightKeys; pd.DataFrame makes one row of each, one column per key.     *)
(***************************************************************************)
FlightKeys == <<"icao24", "firstSeen", "estDepartureAirport", "lastSeen",
                "estArrivalAirport", "callsign">>
FrameOfFlights(data) ==
    [columns |-> FlightKeys,
     rows |-> [i \in 1..Len(data) |-> [c \in Range(FlightKeys) |-> data[i][c]]]]

\* args holds airport (absent for get_flights_interval), begin and end
FlightParams(op, args) ==
    IF op = "get_flights_interval"
    THEN [k \in {"begin", "end"} |-> args[k]]
    ELSE [k \in {"airport", "begin", "end"} |-> args[k]]

EmptyDict == [k \in {} |-> 0]

ExceptNothing(r) == r
\* except Exception: log, return pd.DataFrame()
ExceptException(r) == [r EXCEPT !.outcome = "ok", !.df = EmptyFrame]

FlightsResult(tok, exp, t, op, args, tr, lat, dr) ==
    LET req == MakeRequest(tok, exp, t, tr, lat, dr)
        r0 == [outcome |-> req.outcome, posts |-> req.posts,
               issued |-> req.issued, token |-> req.token, gets |-> req.gets,
               bearer |-> req.bearer, retry_after |-> req.retry_after,
               params |-> IF req.gets = 1 THEN Some(FlightParams(op, args)) ELSE None,
               num_columns |-> 0, df |-> EmptyFrame,
               access_token |-> req.access_token,
               token_expires_at |-> req.token_expires_at, end |-> req.end]
    IN  IF req.outcome # "ok" THEN ExceptException(r0)
        ELSE IF ~TruthyList(Some(req.data)) THEN r0
        ELSE [r0 EXCEPT !.df = FrameOfFlights(req.data)]

(***************************************************************************)
(* Numbers of the pipeline.  A measurement is an exact fraction n/d in      *)
(* lowest terms with d > 0; products cancel before multiplying, so that     *)
(* every intermediate value stays small.                                    *)
(***************************************************************************)
Abs(i) == IF i < 0 THEN -i ELSE i
RECURSIVE GCD(_, _)
GCD(a, b) == IF b = 0 THEN a ELSE GCD(b, a % b)
Ratio(n, d) == LET g == GCD(Abs(n), d) IN [n |-> n \div g, d |-> d \div g]
Whole(i) == [n |-> i, d |-> 1]
Times(x, y) ==
    LET g1 == GCD(Abs(x.n), y.d)
        g2 == GCD(Abs(y.n), x.d)
    IN  [n |-> (x.n \div g1) * (y.n \div g2), d |-> (x.d \div g2) * (y.d \div g1)]
Floor(x) == x.n \div x.d
IsWhole(x) == x.n % x.d = 0
\* x <= i and x > i for an integer i
AtMost(x, i) == Floor(x) < i \/ (Floor(x) = i /\ IsWhole(x))
Above(x, i) == ~AtMost(x, i)

(***************************************************************************)
(* transform_states, lines 59-122, step by step on a frame.                *)
(***************************************************************************)
\* DataFrame.empty: no rows or no columns; variant: never
EmptyNever(df) == FALSE
Empty(df) == Len(df.rows) = 0 \/ Len(df.columns) = 0

\* df[mask]: the rows that pass, in order; passing is the set of such rows
Filter(df, passing) ==
    [df EXCEPT !.rows = SelectSeq(df.rows, LAMBDA row : row \in passing)]

\* df[c] = values, values[row] being the cell of a row: an existing column
\* keeps its place, a new one goes last
Assign(df, c, values) ==
    [columns |-> IF c \in Range(df.columns) THEN df.columns ELSE Append(df.columns, c),
     rows |-> [i \in 1..Len(df.rows) |->
                 [k \in DOMAIN df.rows[i] \cup {c} |->
                     IF k = c THEN values[df.rows[i]] ELSE df.rows[i][k]]]]

\* line 65: df[~df['on_ground']]; variant: every row
AirborneAll(df) == df
Airborne(df) == Filter(df, {row \in Range(df.rows) : ~row["on_ground"][1]})

\* lines 68-69: a missing measurement stays missing
FeetPerMetre == Ratio(328084, 100000)
KnotsPerMetreSecond == Ratio(194384, 100000)
Scaled(cell, factor) == IF IsNone(cell) THEN None ELSE Some(Times(cell[1], factor))
AltitudeFt(row) == Scaled(row["baro_altitude"], FeetPerMetre)
\* variant of line 69: converts the speed_knots a row already carries
SpeedKnotsCompounding(row) ==
    IF "speed_knots" \in DOMAIN row THEN Scaled(row["speed_knots"], KnotsPerMetreSecond)
    ELSE Scaled(row["velocity"], KnotsPerMetreSecond)
SpeedKnots(row) == Scaled(row["velocity"], KnotsPerMetreSecond)

\* line 72: dropna(subset=...); variant: dropna() over every column
CriticalFields == {"latitude", "longitude", "velocity", "baro_altitude"}
DropNaAny(df, subset) ==
    Filter(df, {row \in Range(df.rows) : \A c \in DOMAIN row : ~IsNone(row[c])})
DropNa(df, subset) ==
    Filter(df, {row \in Range(df.rows) : \A c \in subset : ~IsNone(row[c])})

\* lines 75-76: fillna(0) and clip(lower=1); variant: no lower bound
FillNa(cell, i) == IF IsNone(cell) THEN Some(Whole(i)) ELSE cell
ClipNothing(cell, lower) == cell
Clip(cell, lower) == IF Floor(cell[1]) < lower THEN Some(Whole(lower)) ELSE cell
MinSpeedKnots == 1

\* lines 79-90: pd.cut(values, bins, labels) with its defaults right=True,
\* include_lowest=False: label i covers (bins[i], bins[i+1]], and a value in
\* no interval is NaN.  Variants: intervals closed on the left with the top
\* edge included; values beyond the edges put in the nearest interval.
AltitudeBins == <<0, 10000, 20000, 30000, 45000, 100000>>
AltitudeLabels == <<"Low", "Medium", "High", "Very High", "Extreme">>
SpeedBins == <<0, 200, 350, 500, 1000>>
SpeedLabels == <<"Slow", "Medium", "Fast", "Very Fast">>
LabelOf(hits, labels) ==
    IF hits = {} THEN None ELSE Some(labels[CHOOSE i \in hits : TRUE])
CutLeftClosed(cell, bins, labels) ==
    LET x == cell[1]
        n == Len(labels)
    IN  LabelOf({i \in 1..n :
                    /\ bins[i] <= Floor(x)
                    /\ Floor(x) < bins[i + 1] \/ (i = n /\ AtMost(x, bins[i + 1]))},
                labels)
CutClamped(cell, bins, labels) ==
    LET x == cell[1]
        n == Len(labels)
    IN  LabelOf({i \in 1..n :
                    /\ i = 1 \/ Above(x, bins[i])
                    /\ i = n \/ AtMost(x, bins[i + 1])}, labels)
Cut(cell, bins, labels) ==
    LET x == cell[1]
    IN  LabelOf({i \in 1..Len(labels) : Above(x, bins[i]) /\ AtMost(x, bins[i + 1])},
                labels)

\* lines 93-117: category.map(aircraft_types).fillna('Unknown'); the label of
\* code c is AircraftTypes[c + 1].  Variant: without the fillna.
AircraftTypes ==
    << "No Info Available", "No ADS-B Info", "Light (<15.5k lbs)",
       "Small (15.5k-75k lbs)", "Large (75k-300k lbs)",
       "High Vortex Large (B-757)", "Heavy (>300k lbs)", "High Performance",
       "Rotorcraft", "Glider", "Lighter-than-air", "Parachutist",
       "Ultralight", "Reserved", "UAV", "Space Vehicle", "Emergency Vehicle",
       "Service Vehicle", "Point Obstacle", "Cluster Obstacle",
       "Line Obstacle" >>
MapType(cell) ==
    IF ~IsNone(cell) /\ cell[1] \in 0..(Len(AircraftTypes) - 1)
    THEN Some(AircraftTypes[cell[1] + 1])
    ELSE None
FillUnknownNothing(cell) == cell
FillUnknown(cell) == IF IsNone(cell) THEN Some("Unknown") ELSE cell

\* the columns the steps read; df[c] raises KeyError on a frame without c
ColumnsRead ==
    {"on_ground", "baro_altitude", "velocity", "latitude", "longitude", "category"}

\* df[~df['on_ground']].copy(), line 65: the frame worked on is a new object,
\* so the caller's frame holds after the assignments of lines 68-69 what it
\* held before, and not what was assigned.
GivenAssigned(df, assigned) == assigned
Given(df, assigned) == df

\* The result: the frame returned (df), what the caller's frame holds after
\* the call (given), and whether the frame returned is the caller's own
\* object (same): return df, line 62, against return df_airborne, line 122.
TransformStates(df) ==
    IF Empty(df) THEN [outcome |-> "ok", df |-> df, given |-> df, same |-> TRUE]
    ELSE IF ~(ColumnsRead \subseteq Range(df.columns))
    THEN [outcome |-> "KeyError", df |-> EmptyFrame, given |-> df, same |-> FALSE]
    ELSE
      LET airborne == Airborne(df)
          with_altitude ==
              Assign(airborne, "altitude_ft",
                     [row \in Range(airborne.rows) |-> AltitudeFt(row)])
          converted ==
              Assign(with_altitude, "speed_knots",
                     [row \in Range(with_altitude.rows) |-> SpeedKnots(row)])
          complete == DropNa(converted, CriticalFields)
          floored ==
              Assign(complete, "speed_knots",
                     [row \in Range(complete.rows) |->
                         Clip(FillNa(row["speed_knots"], 0), MinSpeedKnots)])
          filled ==
              Assign(floored, "altitude_ft",
                     [row \in Range(floored.rows) |-> FillNa(row["altitude_ft"], 0)])
          by_altitude ==
              Assign(filled, "altitude_category",
                     [row \in Range(filled.rows) |->
                         Cut(row["altitude_ft"], AltitudeBins, AltitudeLabels)])
          by_speed ==
              Assign(by_altitude, "speed_category",
                     [row \in Range(by_altitude.rows) |->
                         Cut(row["speed_knots"], SpeedBins, SpeedLabels)])
      IN  [outcome |-> "ok",
           df |-> Assign(by_speed, "aircraft_type",
                         [row \in Range(by_speed.rows) |->
                             FillUnknown(MapType(row["category"]))]),
           given |-> Given(df, converted),
           same |-> FALSE]

(***************************************************************************)
(* aggregate_metrics, lines 124-141.  The result is a dict, a function     *)
(* from its keys; a breakdown, value_counts().to_dict(), is the sequence of *)
(* its entries [key, count] in the dict's order.  nunique, mean, max and    *)
(* value_counts skip missing values.                                       *)
(***************************************************************************)
Present(df, c) == {df.rows[i][c][1] : i \in {j \in 1..Len(df.rows) : ~IsNone(df.rows[j][c])}}

Plus(x, y) ==
    LET l == (x.d \div GCD(x.d, y.d)) * y.d
    IN  Ratio(x.n * (l \div x.d) + y.n * (l \div y.d), l)
RECURSIVE Sum(_, _, _)
Sum(df, c, i) ==
    IF i = 0 THEN Whole(0)
    ELSE IF IsNone(df.rows[i][c]) THEN Sum(df, c, i - 1)
    ELSE Plus(Sum(df, c, i - 1), df.rows[i][c][1])
Mean(df, c) ==
    LET n == Cardinality({i \in 1..Len(df.rows) : ~IsNone(df.rows[i][c])})
        total == Sum(df, c, Len(df.rows))
    IN  IF n = 0 THEN None ELSE Some(Ratio(total.n, total.d * n))
\* x <= y for two fractions
NoMoreThan(x, y) ==
    \/ Floor(x) < Floor(y)
    \/ Floor(x) = Floor(y) /\ (x.n % x.d) * y.d <= (y.n % y.d) * x.d
Maximum(df, c) ==
    LET vals == Present(df, c)
    IN  IF vals = {} THEN None
        ELSE Some(CHOOSE x \in vals : \A y \in vals : NoMoreThan(y, x))

\* value_counts groups an object column by value, in the order the values
\* are first met
RECURSIVE FirstSeen(_, _, _)
FirstSeen(df, c, i) ==
    IF i = 0 THEN <<>>
    ELSE LET before == FirstSeen(df, c, i - 1)
             cell == df.rows[i][c]
         IN  IF IsNone(cell) \/ cell[1] \in Range(before) THEN before
             ELSE Append(before, cell[1])
CountOnce(df, c, v) == IF \E i \in 1..Len(df.rows) : df.rows[i][c] = Some(v) THEN 1 ELSE 0
Count(df, c, v) == Cardinality({i \in 1..Len(df.rows) : df.rows[i][c] = Some(v)})
Counted(df, c, keys) ==
    [i \in 1..Len(keys) |-> [key |-> keys[i], count |-> Count(df, c, keys[i])]]

\* sort_values(ascending=False) with the default kind, quicksort, which is
\* not stable: entries of equal count come out in an order the sort does not
\* fix.  tie is that outcome: the grouping order kept, or reversed.
TieOrders == {"kept", "reversed"}
Precedes(entries, j, i, tie) ==
    \/ entries[j].count > entries[i].count
    \/ /\ entries[j].count = entries[i].count
       /\ IF tie = "kept" THEN j < i ELSE j > i
SortUnsorted(entries, tie) == entries
SortValues(entries, tie) ==
    [k \in 1..Len(entries) |->
        entries[CHOOSE i \in 1..Len(entries) :
                   Cardinality({j \in 1..Len(entries) : Precedes(entries, j, i, tie)}) = k - 1]]

ValueCounts(df, c, tie) ==
    SortValues(Counted(df, c, FirstSeen(df, c, Len(df.rows))), tie)

\* line 136: value_counts().head(10); variant: without the head
TopN == 10
CountryCountsAll(df, tie) == ValueCounts(df, "origin_country", tie)
CountryCounts(df, tie) == Prefix(ValueCounts(df, "origin_country", tie), TopN)
\* line 137: value_counts of the categorical column pd.cut made: every
\* category, in the order of the labels, a category no row has with a count
\* of 0
AltitudeCounts(df, tie) ==
    SortValues(Counted(df, "altitude_category", AltitudeLabels), tie)
\* line 138: value_counts(); variant: with the head of line 136
TypeCountsTop(df, tie) == Prefix(ValueCounts(df, "aircraft_type", tie), TopN)
TypeCounts(df, tie) == ValueCounts(df, "aircraft_type", tie)

\* line 127: return {}; variant: a summary of zeros
ZeroMetrics(df) == [total_flights |-> 0, countries |-> 0]
NoMetrics(df) == EmptyDict
AggregateMetrics(df, ties) ==
    IF Empty(df) THEN NoMetrics(df)
    ELSE [total_flights |-> Len(df.rows),
          countries |-> Cardinality(Present(df, "origin_country")),
          avg_altitude_ft |-> Mean(df, "altitude_ft"),
          avg_speed_knots |-> Mean(df, "speed_knots"),
          max_altitude_ft |-> Maximum(df, "altitude_ft"),
          max_speed_knots |-> Maximum(df, "speed_knots"),
          flights_by_country |-> CountryCounts(df, ties.country),
          flights_by_altitude |-> AltitudeCounts(df, ties.altitude),
          flights_by_type |-> TypeCounts(df, ties.type)]

(***************************************************************************)
(* update_data of the three dashboards: what the callback returns.  A text *)
(* is the sequence of its pieces, a number its characters; an output list  *)
(* is the sequence of the outputs in the order of the decorator.           *)
(***************************************************************************)
Apps == {"dash_app", "dash_app_pro", "dash_app_ultimate"}

DigitChars == << "0", "1", "2", "3", "4", "5", "6", "7", "8", "9" >>
RECURSIVE Digits(_)
Digits(n) ==
    IF n < 10 THEN << DigitChars[n + 1] >>
    ELSE Digits(n \div 10) \o << DigitChars[(n % 10) + 1] >>
TwoDigits(n) == << DigitChars[(n \div 10) + 1], DigitChars[(n % 10) + 1] >>
ThreeDigits(n) == << DigitChars[(n \div 100) + 1] >> \o TwoDigits(n % 100)
\* format(n, ","): groups of three digits
RECURSIVE Grouped(_)
Grouped(n) ==
    IF n < 1000 THEN Digits(n)
    ELSE Grouped(n \div 1000) \o << "," >> \o ThreeDigits(n % 1000)
\* round-half-even of a fraction that is not negative, as the float
\* formatting rounds
RoundHalfEven(x) ==
    LET f == Floor(x)
        twice == 2 * (x.n % x.d)
    IN  IF twice > x.d \/ (twice = x.d /\ f % 2 = 1) THEN f + 1 ELSE f
\* f"{n:,}" for an int and f"{x:,.0f}" for a float
FormatInt(n) == IF n < 0 THEN << "-" >> \o Grouped(-n) ELSE Grouped(n)
FormatFloat0(x) ==
    IF x.n < 0 THEN << "-" >> \o Grouped(RoundHalfEven([n |-> -x.n, d |-> x.d]))
    ELSE Grouped(RoundHalfEven(x))
\* f"{x:.1f}" of a fraction that is not negative
FormatFloat1(x) ==
    LET tenths == RoundHalfEven(Ratio(x.n * 10, x.d))
    IN  Digits(tenths \div 10) \o << "." >> \o << DigitChars[(tenths % 10) + 1] >>
\* datetime.now().strftime('%H:%M:%S'), the local time taken as UTC
ClockText(t) ==
    LET s == t % 86400
    IN  TwoDigits(s \div 3600) \o << ":" >> \o TwoDigits((s % 3600) \div 60)
          \o << ":" >> \o TwoDigits(s % 60)

\* df.to_json(orient='split'): the column names, and each row as the list of
\* its cells in the order of the columns (row labels are not modelled)
ToJson(df) ==
    [columns |-> df.columns,
     data |-> [i \in 1..Len(df.rows) |->
                  [j \in 1..Len(df.columns) |-> df.rows[i][df.columns[j]]]]]

\* sorted(): the order of the country names the environment knows
Alphabetical ==
    << "Brazil", "Canada", "Chile", "France", "Germany", "India", "Italy",
       "Japan", "Kenya", "Mexico", "Norway", "Spain", "United States" >>
Sorted(S) == SelectSeq(Alphabetical, LAMBDA c : c \in S)

\* df['origin_country'].unique(): the values with None among them
HasNull(df, c) == \E i \in 1..Len(df.rows) : IsNone(df.rows[i][c])
AllCountries == [label |-> << "All Countries" >>, value |-> Some("all")]
AllOption == [label |-> << "All" >>, value |-> Some("all")]

\* the country options of dash_app_pro (lines 238-243) and dash_app_ultimate
\* (lines 247-253): sorted() raises TypeError on None next to a name, and
\* country_counts[None] raises KeyError
CountryOptions(app, df) ==
    LET names == Present(df, "origin_country")
        null == HasNull(df, "origin_country")
        label(c) == IF app = "dash_app_ultimate"
                    THEN << c, " (" >> \o Digits(Count(df, "origin_country", c)) \o << ")" >>
                    ELSE << c >>
        named == [k \in 1..Cardinality(names) |->
                     [label |-> label(Sorted(names)[k]), value |-> Some(Sorted(names)[k])]]
    IN  IF null /\ names # {} THEN [raised |-> Some("TypeError"), options |-> <<>>]
        ELSE IF null /\ app = "dash_app_ultimate"
        THEN [raised |-> Some("KeyError"), options |-> <<>>]
        ELSE IF null
        THEN [raised |-> None,
              options |-> << AllCountries, [label |-> <<>>, value |-> None] >>]
        ELSE [raised |-> None, options |-> << AllCountries >> \o named]

\* dash_app_pro, lines 230-235
Anomalies(df) ==
    Cardinality({i \in 1..Len(df.rows) : Above(df.rows[i]["speed_knots"][1], 600)})
      + Cardinality({i \in 1..Len(df.rows) :
            /\ Floor(df.rows[i]["altitude_ft"][1]) < 5000
            /\ df.rows[i]["category"] \in {Some(3), Some(4), Some(5), Some(6)}})

\* the four metric cards of dash_app and dash_app_pro
MetricTexts(metrics) ==
    << FormatInt(metrics["total_flights"]),
       Digits(metrics["countries"]),
       FormatFloat0(metrics["avg_altitude_ft"][1]) \o << " ft" >>,
       FormatFloat0(metrics["avg_speed_knots"][1]) \o << " kts" >> >>

\* the outputs for an enriched frame with rows, at time t
DataOutputs(app, df, metrics, t) ==
    LET options == CountryOptions(app, df)
    IN  CASE app = "dash_app" ->
               [raised |-> None, outputs |-> << Some(ToJson(df)) >> \o MetricTexts(metrics)]
          [] app = "dash_app_pro" ->
               [raised |-> options.raised,
                outputs |->
                    << Some(ToJson(df)) >> \o MetricTexts(metrics)
                      \o << Digits(Anomalies(df)),
                            FormatFloat1(Ratio(Len(df.rows), 100)),
                            options.options,
                            << "Last updated: " >> \o ClockText(t) >>]
          [] app = "dash_app_ultimate" ->
               [raised |-> options.raised,
                outputs |->
                    << Some(ToJson(df)),
                       options.options,
                       << "Last updated: " >> \o ClockText(t) \o << " | " >>
                         \o FormatInt(Len(df.rows)) \o << " flights" >> >>]

\* the outputs for an empty enriched frame
NoData(app) ==
    CASE app = "dash_app" -> << None, << "0" >>, << "0" >>, << "0 ft" >>, << "0 kts" >> >>
      [] app = "dash_app_pro" ->
           << None, << "0" >>, << "0" >>, << "0 ft" >>, << "0 kts" >>, << "0" >>, << "0" >>,
              << AllCountries >>, << "No data" >> >>
      [] app = "dash_app_ultimate" -> << None, << AllCountries >>, << "No data" >> >>

\* the outputs of the except clause for the exception e, whose text is e;
\* variant: an exception shows as no data
FailureAsNoData(app, e) == NoData(app)
Failure(app, e) ==
    CASE app = "dash_app" ->
           << None, << "Error" >>, << "Error" >>, << "Error" >>, << "Error" >> >>
      [] app = "dash_app_pro" ->
           << None, << "Error" >>, << "Error" >>, << "Error" >>, << "Error" >>,
              << "Error" >>, << "Error" >>, << AllOption >>, << "Error" >> >>
      [] app = "dash_app_ultimate" -> << None, << AllOption >>, << "Error: ", e >> >>

\* except Exception: the exceptions of the model all derive from Exception
Exceptions ==
    {"ValueError", "HTTPError", "Exception", "JSONDecodeError", "KeyError",
     "TypeError", "OSError"}

\* What update_data returns: for the exception a step raised, for an
\* enriched frame without rows, and for one with rows.
UpdateDataReturns(app, raised, df, metrics, t) ==
    IF ~IsNone(raised) THEN Failure(app, raised[1])
    ELSE IF Empty(df) THEN NoData(app)
    ELSE LET r == DataOutputs(app, df, metrics, t)
         IN  IF ~IsNone(r.raised) THEN Failure(app, r.raised[1]) ELSE r.outputs

\* the statements of update_data and of the calls below it, in the order of
\* the code: collect_live_states calls get_states, which calls
\* _make_request, which gets the token (line 47) and then sends the GET
\* (line 51); dash_app_ultimate does not aggregate.  Variant: the GET is
\* sent without asking for a token.
AfterUnauthenticated(app, step) ==
    CASE step = "collect" -> "fetch"
      [] step = "authenticate" -> "fetch"
      [] step = "fetch" -> "transform"
      [] step = "transform" -> IF app = "dash_app_ultimate" THEN "return" ELSE "aggregate"
      [] step = "aggregate" -> "return"
After(app, step) ==
    CASE step = "collect" -> "authenticate"
      [] step = "authenticate" -> "fetch"
      [] step = "fetch" -> "transform"
      [] step = "transform" -> IF app = "dash_app_ultimate" THEN "return" ELSE "aggregate"
      [] step = "aggregate" -> "return"

(***************************************************************************)
(* The environment: what the token endpoint and the data endpoint answer,  *)
(* and what the callers pass.                                              *)
(***************************************************************************)
Tokens == {"tokA", "tokB"}
ExpiresInValues == {None, Some(SafetyMargin), Some(SafetyMargin + 1)}
Latencies == {0, 1}
TickSteps == {1, DefaultExpiresIn - SafetyMargin - 1}

TokenBody(tok, e) == [access_token |-> tok, expires_in |-> e]
NoTokenResponse == [status |-> 0, body |-> None]
\* a token document; a document without access_token, with or without an
\* error status; a redirect whose body is not JSON
TokenResponses ==
    {[status |-> 200, body |-> Some(TokenBody(Some(tok), e))] :
        tok \in Tokens, e \in ExpiresInValues}
      \cup {[status |-> st, body |-> Some(TokenBody(None, None))] : st \in {200, 401}}
      \cup {[status |-> 302, body |-> None]}
\* tokens that live no longer than the safety margin, a token that lives
\* longer, a refusal
ShortLived == {Some(1), Some(SafetyMargin - 1), Some(SafetyMargin)}
LifetimeResponses ==
    {[status |-> 200, body |-> Some(TokenBody(Some("tokA"), e))] : e \in ShortLived}
      \cup {[status |-> 200, body |-> Some(TokenBody(Some("tokB"), None))],
            [status |-> 401, body |-> Some(TokenBody(None, None))]}
\* what the token endpoint answers a flights fetch: a token that is cached, a
\* token that is not, a refusal
FlightsTokenResponses ==
    {[status |-> 200, body |-> Some(TokenBody(Some("tokA"), None))],
     [status |-> 200, body |-> Some(TokenBody(Some("tokB"), Some(SafetyMargin)))],
     [status |-> 401, body |-> Some(TokenBody(None, None))]}

\* config.REGIONS["north_america"], in whole degrees
NorthAmerica == [k \in {"lamin", "lamax", "lomin", "lomax"} |->
                    CASE k = "lamin" -> 24 [] k = "lamax" -> 71
                      [] k = "lomin" -> -170 [] k = "lomax" -> -50]

\* collect_live_states, line 29: get_states(bbox=bbox)
LiveQuery == [time_secs |-> None, icao24 |-> None, bbox |-> Some(NorthAmerica),
              extended |-> DefaultExtended]
Queries ==
    [time_secs : {None, Some(0), Some(T0)},
     icao24 : {None, Some(<<>>), Some(<< "abc123" >>)},
     bbox : {None, Some(EmptyDict), Some(NorthAmerica)},
     extended : {0, 1}]

\* Raw rows: cell 2 is the callsign, cell 9 the on-ground flag, cell 18 the
\* category; every other cell is a value that stands for its position.
RowVariants ==
    {[callsign |-> << " ", "U", "A", "L", "1", " " >>, on_ground |-> FALSE, category |-> 3],
     [callsign |-> << "D", "L", "2" >>, on_ground |-> TRUE, category |-> 0]}
Widths == {0, 1, 2, 8, 9, 16, 17, 18, 19}
RawRow(w, v) ==
    [k \in 1..w |->
        CASE k = 2 -> Some(v.callsign)
          [] k = 9 -> Some(v.on_ground)
          [] k = CategoryWidth -> Some(v.category)
          [] OTHER -> Some(k)]
RawRows == {RawRow(w, v) : w \in Widths, v \in RowVariants}
RECURSIVE SeqsUpTo(_, _)
SeqsUpTo(S, n) ==
    IF n = 0 THEN {<<>>}
    ELSE LET shorter == SeqsUpTo(S, n - 1)
         IN  shorter \cup {Append(s, x) : s \in {z \in shorter : Len(z) = n - 1}, x \in S}

Json(has, null, rows) == [states |-> [has |-> has, null |-> null, rows |-> rows],
                          time |-> T0]
DataOk(json) == [status |-> 200, header |-> None, decodes |-> TRUE, json |-> json]
DataError(st, header) ==
    [status |-> st, header |-> header, decodes |-> FALSE, json |-> NoJson]
NoDataResponse == DataError(0, None)

\* a document without states, with null states, and with each array of rows
EmptyData == {DataOk(Json(FALSE, FALSE, <<>>)), DataOk(Json(TRUE, TRUE, <<>>))}
ArrayData == {DataOk(Json(TRUE, FALSE, rows)) : rows \in SeqsUpTo(RawRows, MaxRows)}
ErrorData ==
    {DataError(RateLimitStatus, h) :
        h \in {None, Some(<< "5" >>), Some(<< "1", "2", "0" >>)}}
      \cup {DataError(st, None) : st \in {401, 500}}
\* what one refresh of the live region may be answered
LiveData ==
    {DataOk(Json(TRUE, TRUE, <<>>)),
     DataOk(Json(TRUE, FALSE, << RawRow(CategoryWidth, CHOOSE v \in RowVariants : ~v.on_ground) >>)),
     DataError(RateLimitStatus, None),
     DataError(RateLimitStatus, Some(<< "1", "2", "0" >>)),
     DataError(401, None),
     DataError(500, None)}

\* what a flights endpoint answers: an array of flights (empty or not), a
\* 200 or a redirect whose body is empty, a rate limit, a client or server
\* error
Flight(icao, dep, arr) ==
    [icao24 |-> icao, firstSeen |-> T0 - 7200, estDepartureAirport |-> dep,
     lastSeen |-> T0 - 3600, estArrivalAirport |-> arr, callsign |-> "UAL1"]
Flights == {Flight("a1b2c3", "KJFK", "KLAX")}
EmptyBody(st) == [status |-> st, header |-> None, decodes |-> FALSE, json |-> NoJson]
FlightsData ==
    {DataOk(fl) : fl \in SeqsUpTo(Flights, MaxRows)}
      \cup {EmptyBody(200), EmptyBody(302)}
      \cup {DataError(st, None) : st \in {RateLimitStatus, 404, 500}}
\* collect_airport_traffic asks for the last day of one airport
Airports == {"KJFK"}
FlightArgs ==
    [airport : {Some(a) : a \in Airports}, begin : {now - DayBack}, end : {now}]

BasicData ==
    EmptyData \cup ErrorData
      \cup {DataOk(Json(TRUE, FALSE, << RawRow(CategoryWidth, v) >>)) : v \in RowVariants}

\* The batches the pipeline is given: what get_states binds from an array
\* of full state vectors, 17 or 18 cells wide.  A vector is airborne over
\* the United States at 10000 m and 100 m/s unless said otherwise.
Cruising ==
    [callsign |-> Some(<< "U", "A", "L", "1", " " >>),
     origin_country |-> Some("United States"),
     longitude |-> Some(-100), latitude |-> Some(40),
     baro_altitude |-> Some(Whole(10000)), on_ground |-> FALSE,
     velocity |-> Some(Whole(100)), vertical_rate |-> Some(0),
     category |-> Some(3)]
Vectors ==
    {Cruising,
     [Cruising EXCEPT !.on_ground = TRUE],
     [Cruising EXCEPT !.latitude = None],
     [Cruising EXCEPT !.longitude = None],
     [Cruising EXCEPT !.velocity = None],
     [Cruising EXCEPT !.baro_altitude = None],
     [Cruising EXCEPT !.callsign = None, !.origin_country = None,
                      !.vertical_rate = None, !.category = None],
     [Cruising EXCEPT !.origin_country = Some("Canada"), !.category = Some(21)],
     \* at sea level and at rest; below sea level
     [Cruising EXCEPT !.baro_altitude = Some(Whole(0)), !.velocity = Some(Whole(0))],
     [Cruising EXCEPT !.baro_altitude = Some(Whole(-100)), !.category = Some(0)],
     \* exactly 10000 ft and 200 kt; exactly 45000 ft and 1000 kt
     [Cruising EXCEPT !.baro_altitude = Some(Ratio(250000000, 82021)),
                      !.velocity = Some(Ratio(1250000, 12149))],
     [Cruising EXCEPT !.baro_altitude = Some(Ratio(1125000000, 82021)),
                      !.velocity = Some(Ratio(6250000, 12149)),
                      !.category = Some(20)],
     \* above every altitude bin and every speed bin
     [Cruising EXCEPT !.baro_altitude = Some(Whole(40000)),
                      !.velocity = Some(Whole(600))]}
BatchWidths == {CategoryWidth - 1, CategoryWidth}
StateVector(w, v) ==
    [k \in 1..w |->
        CASE k = 2 -> v.callsign
          [] k = 3 -> v.origin_country
          [] k = 6 -> v.longitude
          [] k = 7 -> v.latitude
          [] k = 8 -> v.baro_altitude
          [] k = 9 -> Some(v.on_ground)
          [] k = 10 -> v.velocity
          [] k = 12 -> v.vertical_rate
          [] k = CategoryWidth -> v.category
          [] OTHER -> Some(k)]
\* A batch of more countries and more categories than a breakdown of TopN
\* entries holds: a vector of each nation, its category its place in the
\* list, and two more of the last nation.
Nations ==
    << "Canada", "Mexico", "Brazil", "France", "Germany", "Spain", "Italy",
       "Japan", "India", "Kenya", "Norway", "Chile" >>
Fleet ==
    [i \in 1..(Len(Nations) + 2) |->
        LET k == Min(i, Len(Nations))
        IN  StateVector(CategoryWidth,
                        [Cruising EXCEPT !.origin_country = Some(Nations[k]),
                                         !.category = Some(k - 1)])]
RawFrames ==
    {BindStates(Json(TRUE, FALSE, rows)).df :
        rows \in UNION {SeqsUpTo({StateVector(w, v) : v \in Vectors}, MaxBatch) :
                           w \in BatchWidths}
                \cup {Fleet}}

(***************************************************************************)
(* State machine.  call records the most recent call: its inputs, the      *)
(* cache it found, and everything the call did and returned.               *)
(***************************************************************************)
NoCall ==
    [op |-> "none", t |-> T0, cached_token |-> None, cached_expiry |-> None,
     cached_real_expiry |-> None, cached_issued_at |-> None,
     q |-> LiveQuery, tr |-> NoTokenResponse,
     dr |-> NoDataResponse, outcome |-> "ok", posts |-> 0, gets |-> 0,
     token |-> None, bearer |-> None, retry_after |-> None, params |-> None,
     num_columns |-> 0, df |-> EmptyFrame, end |-> T0]

\* No pass of the pipeline has started.
NoRun ==
    [step |-> "none", df_raw |-> EmptyFrame, outcome |-> "ok", df |-> EmptyFrame,
     same |-> FALSE, again |-> EmptyFrame, metrics |-> EmptyDict]

\* No caller is inside _get_access_token.
Callers == {1, 2}
NoThread == [pc |-> "out", tr |-> NoTokenResponse, wrote |-> None, returned |-> None]
NoThreads == [c \in Callers |-> NoThread]

\* No callback is running.
NoCycle ==
    [app |-> "none", region |-> None, pc |-> "idle", steps |-> <<>>, raised |-> None,
     token |-> None, posts |-> 0, gets |-> 0, bearer |-> None,
     fetched |-> FALSE, df_raw |-> EmptyFrame, df |-> EmptyFrame,
     metrics |-> EmptyDict, outputs |-> <<>>]

NewClient ==
    /\ threads = NoThreads
    /\ cycle = NoCycle
    /\ now = T0
    /\ ticks = 0
    /\ access_token = None
    /\ token_expires_at = None
    /\ real_expiry = None
    /\ issued_at = None
    /\ call = NoCall

Init == NewClient /\ run = NoRun

\* The clock moves between calls.
Tick ==
    \E d \in TickSteps :
        /\ ticks < MaxTicks
        /\ now' = now + d
        /\ ticks' = ticks + 1
        /\ UNCHANGED <<access_token, token_expires_at, real_expiry, issued_at, threads,
                       cycle, call, run>>

\* What every call does to the client and the clock, given its result r.
Finish(r, tr) ==
    /\ ticks + (r.end - now) <= MaxTicks
    /\ now' = r.end
    /\ ticks' = ticks + (r.end - now)
    /\ access_token' = r.access_token
    /\ token_expires_at' = r.token_expires_at
    /\ real_expiry' = IF r.issued THEN Some(r.end + ExpiresIn(tr.body[1])) ELSE real_expiry
    /\ issued_at' = IF r.issued THEN Some(r.end) ELSE issued_at
    /\ UNCHANGED <<threads, cycle, run>>

Record(op, q, tr, dr, r) ==
    [op |-> op, t |-> now, cached_token |-> access_token,
     cached_expiry |-> token_expires_at, cached_real_expiry |-> real_expiry,
     cached_issued_at |-> issued_at,
     q |-> q, tr |-> IF r.posts = 1 THEN tr ELSE NoTokenResponse,
     dr |-> IF r.gets = 1 THEN dr ELSE NoDataResponse,
     outcome |-> r.outcome, posts |-> r.posts, gets |-> r.gets,
     token |-> r.token, bearer |-> r.bearer, retry_after |-> r.retry_after,
     params |-> r.params, num_columns |-> r.num_columns, df |-> r.df,
     end |-> r.end]

\* The token endpoint answers only a POST that is issued (line 34), and the
\* data endpoint only a GET that is issued (line 51).
TokenAnswersOf(S) ==
    IF CacheValid(access_token, token_expires_at, now)
    THEN {<<NoTokenResponse, 0>>}
    ELSE S \X Latencies
TokenAnswers == TokenAnswersOf(TokenResponses)
DataAnswers(ta, S) ==
    IF GetAccessToken(access_token, token_expires_at, now, ta[1], ta[2]).outcome = "ok"
    THEN S
    ELSE {NoDataResponse}

\* A direct call of _get_access_token (test_api.py, line 21).
GetAccessTokenFrom(S) ==
    \E ta \in TokenAnswersOf(S) :
        LET a == GetAccessToken(access_token, token_expires_at, now, ta[1], ta[2])
            r == [outcome |-> a.outcome, posts |-> a.posts, issued |-> a.issued,
                  token |-> a.token, gets |-> 0, bearer |-> None,
                  retry_after |-> None, params |-> None, num_columns |-> 0,
                  df |-> EmptyFrame, access_token |-> a.access_token,
                  token_expires_at |-> a.token_expires_at, end |-> a.end]
        IN  /\ Finish(r, ta[1])
            /\ call' = Record("_get_access_token", LiveQuery, ta[1], NoDataResponse, r)

GetAccessTokenCall == GetAccessTokenFrom(TokenResponses)

\* get_states with the arguments q, against the two endpoints' answers.
GetStates(q, tr, lat, dr) ==
    LET r == GetStatesResult(access_token, token_expires_at, now, q, tr, lat, dr)
    IN  /\ Finish(r, tr)
        /\ call' = Record("get_states", q, tr, dr, r)

\* collect_live_states: one refresh of the live region.
CollectFrom(S, D) ==
    \E ta \in TokenAnswersOf(S) :
        \E dr \in DataAnswers(ta, D) :
            GetStates(LiveQuery, ta[1], ta[2], dr)

CollectLiveStates == CollectFrom(TokenResponses, LiveData)

Next == Tick \/ GetAccessTokenCall \/ CollectLiveStates

Spec == Init /\ [][Next]_vars

(***************************************************************************)
(* The same calls against an identity provider whose tokens live no longer *)
(* than the safety margin of line 40.                                      *)
(***************************************************************************)
Reauthenticate == GetAccessTokenFrom(LifetimeResponses)
Recollect == CollectFrom(LifetimeResponses, {DataOk(Json(TRUE, TRUE, <<>>)), DataError(401, None)})

NextLifetimes == Tick \/ Reauthenticate \/ Recollect

SpecLifetimes == Init /\ [][NextLifetimes]_vars

(***************************************************************************)
(* Two callers inside _get_access_token on one client, lines 25-43, a      *)
(* statement at a time.  pc names the statement a caller is to execute     *)
(* next: "check" (line 25), "post" (lines 34-37), "token" (line 38),       *)
(* "expiry" (line 40), "return" (line 43).  The client starts without a    *)
(* token, or with a token whose cached expiry has come.                    *)
(***************************************************************************)
RaceResponses ==
    {[status |-> 200, body |-> Some(TokenBody(Some("tokA"), None))],
     [status |-> 200, body |-> Some(TokenBody(Some("tokB"), Some(SafetyMargin + 1)))],
     [status |-> 401, body |-> Some(TokenBody(None, None))]}

ExpiredClient ==
    /\ threads = NoThreads
    /\ cycle = NoCycle
    /\ now = T0
    /\ ticks = 0
    /\ access_token = Some("tokA")
    /\ token_expires_at = Some(T0)
    /\ real_expiry = Some(T0 + SafetyMargin)
    /\ issued_at = Some(T0 + SafetyMargin - DefaultExpiresIn)
    /\ call = NoCall

InitRace == (NewClient \/ ExpiredClient) /\ run = NoRun

\* Nothing in _get_access_token or around its calls takes a lock: a caller
\* proceeds wherever the others stand; variant: one caller at a time
EntersAlone(t, c) == \A d \in DOMAIN t \ {c} : t[d].pc \in {"out", "returned", "raised"}
Enters(t, c) == TRUE

Moves(c, pc) == threads[c].pc = pc /\ Enters(threads, c)

Call(c) ==
    /\ Moves(c, "out")
    /\ threads' = [threads EXCEPT ![c].pc = "check"]
    /\ UNCHANGED <<now, ticks, access_token, token_expires_at, real_expiry, issued_at,
                   cycle, call, run>>

\* line 25, and line 26 when the cache is valid
CheckExpiry(c) ==
    /\ Moves(c, "check")
    /\ threads' = IF CacheValid(access_token, token_expires_at, now)
                  THEN [threads EXCEPT ![c].pc = "returned", ![c].returned = access_token]
                  ELSE [threads EXCEPT ![c].pc = "post"]
    /\ UNCHANGED <<now, ticks, access_token, token_expires_at, real_expiry, issued_at,
                   cycle, call, run>>

\* lines 34-37: the POST, raise_for_status, response.json()
PostToken(c) ==
    /\ Moves(c, "post")
    /\ \E tr \in RaceResponses :
          threads' = IF RaisesForStatus(tr.status) \/ IsNone(tr.body)
                     THEN [threads EXCEPT ![c].pc = "raised", ![c].tr = tr]
                     ELSE [threads EXCEPT ![c].pc = "token", ![c].tr = tr]
    /\ UNCHANGED <<now, ticks, access_token, token_expires_at, real_expiry, issued_at,
                   cycle, call, run>>

\* line 38
WriteToken(c) ==
    /\ Moves(c, "token")
    /\ IF IsNone(threads[c].tr.body[1].access_token)
       THEN /\ threads' = [threads EXCEPT ![c].pc = "raised"]
            /\ UNCHANGED access_token
       ELSE /\ access_token' = threads[c].tr.body[1].access_token
            /\ threads' = [threads EXCEPT ![c].pc = "expiry"]
    /\ UNCHANGED <<now, ticks, token_expires_at, real_expiry, issued_at, cycle, call, run>>

\* line 40
WriteExpiry(c) ==
    /\ Moves(c, "expiry")
    /\ token_expires_at' = Some(CachedExpiry(now, threads[c].tr.body[1]))
    /\ real_expiry' = Some(now + ExpiresIn(threads[c].tr.body[1]))
    /\ issued_at' = Some(now)
    /\ threads' = [threads EXCEPT ![c].pc = "return", ![c].wrote = token_expires_at']
    /\ UNCHANGED <<now, ticks, access_token, cycle, call, run>>

\* line 43: return self.access_token
ReturnToken(c) ==
    /\ Moves(c, "return")
    /\ threads' = [threads EXCEPT ![c].pc = "returned", ![c].returned = access_token]
    /\ UNCHANGED <<now, ticks, access_token, token_expires_at, real_expiry, issued_at,
                   cycle, call, run>>

NextRace ==
    \/ Tick
    \/ \E c \in Callers :
          \/ Call(c)
          \/ CheckExpiry(c)
          \/ PostToken(c)
          \/ WriteToken(c)
          \/ WriteExpiry(c)
          \/ ReturnToken(c)

SpecRace == InitRace /\ [][NextRace]_vars

(***************************************************************************)
(* The update_data callback of a dashboard, a step at a time: pc names the *)
(* step to run next, steps the steps run so far.  The region is the value  *)
(* of the dropdown, None when it was cleared.  Callbacks follow each other *)
(* on one client, so a later one finds the token of an earlier one.        *)
(***************************************************************************)
Regions == {Some("north_america"), None}
\* config.REGIONS.get(region)
Bbox(region) == IF region = Some("north_america") THEN Some(NorthAmerica) ELSE None

RefreshResponses ==
    {[status |-> 200, body |-> Some(TokenBody(Some("tokA"), None))],
     [status |-> 200, body |-> Some(TokenBody(Some("tokB"), Some(SafetyMargin)))],
     [status |-> 401, body |-> Some(TokenBody(None, None))]}

Grounded == [Cruising EXCEPT !.on_ground = TRUE]
Canadian == [Cruising EXCEPT !.origin_country = Some("Canada"), !.category = Some(21)]
Stateless == [Cruising EXCEPT !.origin_country = None]
Fast == [Cruising EXCEPT !.velocity = Some(Whole(600)),
                         !.baro_altitude = Some(Whole(1000))]
RefreshBatches ==
    {[i \in 1..Len(b) |-> StateVector(CategoryWidth, b[i])] :
        b \in {<< Cruising >>, << Cruising, Canadian >>, << Cruising, Stateless >>,
               << Stateless >>, << Grounded >>, << Fast >>}}
      \cup {<< StateVector(CategoryWidth - 1, Cruising) >>}
RefreshData ==
    {DataOk(Json(TRUE, TRUE, <<>>))}
      \cup {DataOk(Json(TRUE, FALSE, b)) : b \in RefreshBatches}
      \cup {DataError(RateLimitStatus, None), DataError(401, None)}
\* os.makedirs and df.to_parquet, lines 33-39: done, or refused by the system
SaveOutcomes == {"ok", "OSError"}

\* update_data is called; collect_live_states, lines 23-26
RefreshCollect(app, region) ==
    /\ cycle.pc \in {"idle", "returned"}
    /\ LET entered == [NoCycle EXCEPT !.app = app, !.region = region,
                                      !.steps = << "collect" >>]
       IN  cycle' = IF ~TruthyDict(Bbox(region))
                    THEN [entered EXCEPT !.pc = "except", !.raised = Some("ValueError")]
                    ELSE [entered EXCEPT !.pc = After(app, "collect")]
    /\ UNCHANGED <<now, ticks, access_token, token_expires_at, real_expiry, issued_at,
                   threads, call, run>>

\* _make_request, line 47
RefreshAuthenticate ==
    /\ cycle.pc = "authenticate"
    /\ \E ta \in TokenAnswersOf(RefreshResponses) :
          LET a == GetAccessToken(access_token, token_expires_at, now, ta[1], ta[2])
          IN  /\ ticks + (a.end - now) <= MaxTicks
              /\ now' = a.end
              /\ ticks' = ticks + (a.end - now)
              /\ access_token' = a.access_token
              /\ token_expires_at' = a.token_expires_at
              /\ real_expiry' = IF a.issued THEN Some(a.end + ExpiresIn(ta[1].body[1]))
                                ELSE real_expiry
              /\ issued_at' = IF a.issued THEN Some(a.end) ELSE issued_at
              /\ cycle' = [cycle EXCEPT
                              !.steps = Append(@, "authenticate"),
                              !.token = a.token,
                              !.posts = a.posts,
                              !.raised = IF a.outcome = "ok" THEN None ELSE Some(a.outcome),
                              !.pc = IF a.outcome = "ok"
                                     THEN After(cycle.app, "authenticate") ELSE "except"]
    /\ UNCHANGED <<threads, call, run>>

\* _make_request, lines 48-60, the rest of get_states, and the rest of
\* collect_live_states, lines 31-42
RefreshFetch ==
    /\ cycle.pc = "fetch"
    /\ \E dr \in RefreshData, saved \in SaveOutcomes :
          LET got == SendGet(cycle.token, dr)
              bound == BindStates(got.data)
              outcome == IF got.outcome # "ok" THEN got.outcome
                         ELSE IF bound.outcome # "ok" THEN bound.outcome
                         ELSE IF ~Empty(bound.df) THEN saved
                         ELSE "ok"
          IN  /\ access_token' = FieldAfterGet(access_token, dr.status)
              /\ token_expires_at' = FieldAfterGet(token_expires_at, dr.status)
              /\ cycle' = [cycle EXCEPT
                              !.steps = Append(@, "fetch"),
                              !.gets = 1,
                              !.bearer = got.bearer,
                              !.fetched = outcome = "ok",
                              !.df_raw = IF outcome = "ok" THEN bound.df ELSE EmptyFrame,
                              !.raised = IF outcome = "ok" THEN None ELSE Some(outcome),
                              !.pc = IF outcome = "ok"
                                     THEN After(cycle.app, "fetch") ELSE "except"]
    /\ UNCHANGED <<now, ticks, real_expiry, issued_at, threads, call, run>>

RefreshTransform ==
    /\ cycle.pc = "transform"
    /\ LET r == TransformStates(cycle.df_raw)
       IN  cycle' = [cycle EXCEPT
                        !.steps = Append(@, "transform"),
                        !.df_raw = r.given,
                        !.df = r.df,
                        !.raised = IF r.outcome = "ok" THEN None ELSE Some(r.outcome),
                        !.pc = IF r.outcome = "ok"
                               THEN After(cycle.app, "transform") ELSE "except"]
    /\ UNCHANGED <<now, ticks, access_token, token_expires_at, real_expiry, issued_at,
                   threads, call, run>>

RefreshAggregate ==
    /\ cycle.pc = "aggregate"
    /\ \E ties \in [country : TieOrders, altitude : TieOrders, type : TieOrders] :
          cycle' = [cycle EXCEPT
                       !.steps = Append(@, "aggregate"),
                       !.metrics = AggregateMetrics(cycle.df, ties),
                       !.pc = After(cycle.app, "aggregate")]
    /\ UNCHANGED <<now, ticks, access_token, token_expires_at, real_expiry, issued_at,
                   threads, call, run>>

\* the return statements of update_data; an exception that is not an
\* Exception would leave the callback
UpdateDataReturn ==
    /\ cycle.pc \in {"return", "except"}
    /\ cycle' = IF ~IsNone(cycle.raised) /\ cycle.raised[1] \notin Exceptions
                THEN [cycle EXCEPT !.pc = "propagated"]
                ELSE [cycle EXCEPT
                         !.pc = "returned",
                         !.outputs = UpdateDataReturns(cycle.app, cycle.raised, cycle.df,
                                                       cycle.metrics, now)]
    /\ UNCHANGED <<now, ticks, access_token, token_expires_at, real_expiry, issued_at,
                   threads, call, run>>

NextRefresh ==
    \/ \E app \in Apps, region \in Regions : RefreshCollect(app, region)
    \/ RefreshAuthenticate
    \/ RefreshFetch
    \/ RefreshTransform
    \/ RefreshAggregate
    \/ UpdateDataReturn

SpecRefresh == Init /\ [][NextRefresh]_vars

(***************************************************************************)
(* One get_states call on a fresh client, over every query and every       *)
(* states array within the bounds.                                         *)
(***************************************************************************)
FreshToken == [status |-> 200, body |-> Some(TokenBody(Some("tokA"), None))]
CallInputs == (Queries \X BasicData) \cup ({LiveQuery} \X ArrayData)

FirstGetStates ==
    \E in \in CallInputs :
        /\ call.op = "none"
        /\ GetStates(in[1], FreshToken, 0, in[2])

NextCall == FirstGetStates

SpecCall == Init /\ [][NextCall]_vars

(***************************************************************************)
(* The flights fetches, against every answer of the two endpoints, for the *)
(* last day of an airport.  get_flights_interval takes no airport.         *)
(***************************************************************************)
GetFlights(op) ==
    \E ta \in TokenAnswersOf(FlightsTokenResponses) :
        \E dr \in DataAnswers(ta, FlightsData) :
            \E a \in FlightArgs :
            LET args == IF op = "get_flights_interval" THEN [a EXCEPT !.airport = None] ELSE a
                r == FlightsResult(access_token, token_expires_at, now, op, args,
                                   ta[1], ta[2], dr)
            IN  /\ Finish(r, ta[1])
                /\ call' = Record(op, args, ta[1], dr, r)

GetFlightsInterval == GetFlights("get_flights_interval")
GetArrivals == GetFlights("get_arrivals")
GetDepartures == GetFlights("get_departures")

NextFlights == GetFlightsInterval \/ GetArrivals \/ GetDepartures

SpecFlights == Init /\ [][NextFlights]_vars

(***************************************************************************)
(* One pass of the pipeline over a collected batch (dash_app.py, lines     *)
(* 152-154): transform_states, then aggregate_metrics of its result; and    *)
(* transform_states applied to its own result.                             *)
(***************************************************************************)
InitPipeline ==
    /\ NewClient
    /\ run \in {[NoRun EXCEPT !.step = "collected", !.df_raw = f] : f \in RawFrames}

Transform ==
    /\ run.step = "collected"
    /\ LET r == TransformStates(run.df_raw)
       IN  run' = [run EXCEPT !.step = "transformed", !.outcome = r.outcome,
                              !.df_raw = r.given, !.df = r.df, !.same = r.same]
    /\ UNCHANGED client

TransformAgain ==
    /\ run.step = "transformed"
    /\ run.outcome = "ok"
    /\ LET r == TransformStates(run.df)
       IN  run' = [run EXCEPT !.step = "transformed twice", !.outcome = r.outcome,
                              !.df = r.given, !.again = r.df]
    /\ UNCHANGED client

Aggregate ==
    /\ run.step = "transformed"
    /\ run.outcome = "ok"
    /\ \E ties \in [country : TieOrders, altitude : TieOrders, type : TieOrders] :
          run' = [run EXCEPT !.step = "aggregated",
                             !.metrics = AggregateMetrics(run.df, ties)]
    /\ UNCHANGED client

NextPipeline == Transform \/ TransformAgain \/ Aggregate

SpecPipeline == InitPipeline /\ [][NextPipeline]_vars

(***************************************************************************)
(* Properties.  Each is stated over call, the record of the most recent    *)
(* call, and the client's fields after it.                                 *)
(***************************************************************************)
Called == call.op # "none"
ReceivedToken ==
    /\ call.posts = 1
    /\ 200 <= call.tr.status /\ call.tr.status < 300
    /\ ~IsNone(call.tr.body)
    /\ ~IsNone(call.tr.body[1].access_token)

\* C1: with a cached token whose real expiry is T (issue time + expires_in), a
\* call at t < T - 300 returns the cached token and issues no token POST; a
\* call at t >= T - 300 issues one token POST and, when that POST brings a
\* token, returns the token just received.
C1_TokenCacheWindow ==
    (Called /\ ~IsNone(call.cached_real_expiry)) =>
        LET T == call.cached_real_expiry[1]
        IN  /\ call.t < T - 300 =>
                /\ call.posts = 0
                /\ call.token = call.cached_token
            /\ call.t >= T - 300 =>
                /\ call.posts = 1
                /\ ReceivedToken => call.token = call.tr.body[1].access_token

\* C1 witness: a call exactly at T - 300 re-authenticates and returns a token
\* other than the cached one.
C1_Witness ==
    /\ Called
    /\ ~IsNone(call.cached_real_expiry)
    /\ call.t = call.cached_real_expiry[1] - 300
    /\ call.posts = 1
    /\ ReceivedToken
    /\ call.token = call.tr.body[1].access_token
    /\ call.token # call.cached_token

\* C2: after a token POST at time now that brings a token and expires_in = E,
\* the cache holds (that token, now + E - 300), with E = 1800 when the
\* response has no expires_in.
C2_CacheAfterPost ==
    (Called /\ ReceivedToken) =>
        LET body == call.tr.body[1]
            E == IF IsNone(body.expires_in) THEN 1800 ELSE body.expires_in[1]
        IN  /\ access_token = body.access_token
            /\ token_expires_at = Some(call.end + E - 300)

\* C2 witness: a POST that took a second to answer and carried no expires_in
\* replaced the cached token.
C2_Witness ==
    /\ Called
    /\ ReceivedToken
    /\ IsNone(call.tr.body[1].expires_in)
    /\ call.end > call.t
    /\ ~IsNone(call.cached_token)
    /\ access_token # call.cached_token
    /\ token_expires_at = Some(call.end + 1500)

\* C3: when the token request is answered with a non-2xx status, get_states
\* raises (HTTPError for 4xx and 5xx), sends no data GET and has sent exactly
\* one token POST; nothing is returned.
C3_AuthFailureIsFatal ==
    (call.op = "get_states" /\ call.posts = 1
        /\ ~(200 <= call.tr.status /\ call.tr.status < 300)) =>
        /\ call.outcome # "ok"
        /\ call.tr.status >= 400 => call.outcome = "HTTPError"
        /\ call.gets = 0
        /\ IsNone(call.params)
        /\ IsNone(call.bearer)
        /\ call.df = EmptyFrame

\* C3 witness: a get_states call whose token POST was answered 401.
C3_Witness ==
    /\ call.op = "get_states"
    /\ call.posts = 1
    /\ call.tr.status = 401
    /\ call.outcome = "HTTPError"
    /\ call.gets = 0

\* C4: a 429 answer to the data GET raises the rate-limit exception with the
\* seconds of the retry-after header (60 without the header), after exactly
\* one GET; no call sends more than one GET, and a call sends one exactly
\* when its token lookup succeeded.
C4_RateLimit ==
    call.op = "get_states" =>
        /\ call.gets <= 1
        /\ call.gets = 1 <=> ~IsNone(call.bearer)
        /\ call.dr.status = 429 =>
            /\ call.outcome = "Exception"
            /\ call.gets = 1
            /\ call.posts <= 1
            /\ call.end - call.t <= 1
            /\ IsNone(call.dr.header) => call.retry_after = Some(60)
            /\ call.dr.header = Some(<< "1", "2", "0" >>) => call.retry_after = Some(120)

\* C4 witness: a 429 without the header was raised with 60 seconds.
C4_Witness ==
    /\ call.op = "get_states"
    /\ call.dr.status = 429
    /\ IsNone(call.dr.header)
    /\ call.outcome = "Exception"
    /\ call.retry_after = Some(60)
    /\ call.gets = 1

RawStates == call.dr.json.states
Answered200 == call.op = "get_states" /\ call.gets = 1 /\ call.dr.status = 200

\* C5: get_states returns the empty row set and raises nothing when the
\* document's states is absent, null or an empty array.
C5_NoStatesIsEmpty ==
    (Answered200 /\ (~RawStates.has \/ RawStates.null \/ RawStates.rows = <<>>)) =>
        /\ call.outcome = "ok"
        /\ call.df = EmptyFrame

\* C5 witness: a document with states = [] was answered with the empty set.
C5_Witness ==
    /\ Answered200
    /\ RawStates.has
    /\ ~RawStates.null
    /\ RawStates.rows = <<>>
    /\ call.outcome = "ok"
    /\ call.df = EmptyFrame

Raw == RawStates.rows
Returned == Answered200 /\ call.outcome = "ok" /\ Len(call.df.rows) > 0
HasCategory(i) == "category" \in DOMAIN call.df.rows[i]
ServerSupplied(i) ==
    Len(Raw[i]) >= 18 /\ HasCategory(i) /\ call.df.rows[i]["category"] = Raw[i][18]
Defaulted(i) ==
    Len(Raw[i]) < 18 /\ HasCategory(i) /\ call.df.rows[i]["category"] = Some(0)

\* C6 as stated: in a returned row set, a raw row of width 17 has no category
\* field, and a raw row of width 18 has one, equal to its 18th element.
C6_Original ==
    Returned =>
        \A i \in 1..Len(Raw) :
            /\ Len(Raw[i]) = 17 => ~HasCategory(i)
            /\ Len(Raw[i]) = 18 => ServerSupplied(i)

\* C6 as amended: in a returned row set, a raw row of a 17-column response
\* (17 counted on the first row) has the category field with the default 0,
\* never a server value; a raw row of width 18 of an 18-column response has
\* a category field equal to its 18th element.
C6_ColumnBinding ==
    Returned =>
        /\ Len(Raw[1]) = 17 => \A i \in 1..Len(Raw) : Defaulted(i)
        /\ Len(Raw[1]) = 18 =>
              \A i \in 1..Len(Raw) : Len(Raw[i]) = 18 => ServerSupplied(i)

\* C6 witness: a response of two rows of width 18 with different categories,
\* each returned with its own 18th element.
C6_Witness ==
    /\ Returned
    /\ Len(Raw) = 2
    /\ Len(Raw[1]) = 18 /\ Len(Raw[2]) = 18
    /\ Raw[1][18] # Raw[2][18]
    /\ ServerSupplied(1) /\ ServerSupplied(2)

\* C7: every row of a non-empty returned row set has a category field; when
\* the response has 18 columns (counted on its first row) the field is the
\* server's 18th column (missing on a row that is shorter), otherwise it is
\* 0 on every row.
C7_CategoryOnEveryRow ==
    Returned =>
        \A i \in 1..Len(call.df.rows) :
            /\ HasCategory(i)
            /\ call.df.rows[i]["category"] =
                  IF Len(Raw[1]) = 18
                  THEN (IF Len(Raw[i]) >= 18 THEN Raw[i][18] ELSE None)
                  ELSE Some(0)

\* C7 witness: a response of 16 columns returned with category 0.
C7_Witness ==
    /\ Returned
    /\ Len(Raw[1]) = 16
    /\ call.num_columns = 16
    /\ HasCategory(1)
    /\ call.df.rows[1]["category"] = Some(0)

\* C8 as stated: in a returned row set either every row carries a
\* server-supplied category or every row carries the default.
C8_Original ==
    Returned =>
        \/ \A i \in 1..Len(Raw) : ServerSupplied(i)
        \/ \A i \in 1..Len(Raw) : Defaulted(i)

\* C8 as amended: a returned row set is never a mix of server-supplied and
\* defaulted categories.  Either the category column is the server's 18th
\* column on every row, and a row shorter than 18 then carries a missing
\* category, not the default; or every row carries the default 0.
C8_NeverMixed ==
    Returned =>
        /\ ~ \E i, j \in 1..Len(Raw) : ServerSupplied(i) /\ Defaulted(j)
        /\ \/ \A i \in 1..Len(Raw) :
                  \/ ServerSupplied(i)
                  \/ Len(Raw[i]) < 18 /\ HasCategory(i)
                        /\ call.df.rows[i]["category"] = None
           \/ \A i \in 1..Len(Raw) : Defaulted(i)

\* C8 witness: a first row of width 18 followed by a row of width 17; the
\* second row is returned with a missing category.
C8_Witness ==
    /\ Returned
    /\ Len(Raw) = 2
    /\ Len(Raw[1]) = 18 /\ Len(Raw[2]) = 17
    /\ ServerSupplied(1)
    /\ call.df.rows[2]["category"] = None

\* C9 as stated: for a non-empty states array whose first row has width w,
\* get_states raises nothing and binds the first min(w, schema length) names.
C9_AcceptedAsIs ==
    (Answered200 /\ Len(Raw) > 0) =>
        LET w == Len(Raw[1])
            schema == IF w = 18 THEN Append(Columns, "category") ELSE Columns
        IN  /\ call.outcome = "ok"
            /\ SubSeq(call.df.columns, 1, Min(w, Len(schema)))
                  = SubSeq(schema, 1, Min(w, Len(schema)))

Supplied(o) == ~IsNone(o)
BoxKeys == {"lamin", "lamax", "lomin", "lomax"}

\* C10 as stated, for the calls that leave extended at its default: the GET
\* of get_states carries extended=1; it carries the four box parameters
\* exactly when a bounding box is supplied, time exactly when a timestamp is
\* supplied (0 included), and icao24 exactly when a filter is supplied.
C10_QueryParameters ==
    (call.op = "get_states" /\ call.gets = 1 /\ call.q.extended = 1) =>
        LET p == call.params[1]
        IN  /\ p["extended"] = 1
            /\ "time" \in DOMAIN p <=> Supplied(call.q.time_secs)
            /\ "time" \in DOMAIN p => p["time"] = call.q.time_secs[1]
            /\ "icao24" \in DOMAIN p <=> TruthyList(call.q.icao24)
            /\ BoxKeys \subseteq DOMAIN p <=> TruthyDict(call.q.bbox)

(***************************************************************************)
(* The flights fetches.                                                    *)
(***************************************************************************)
FlightsOps == {"get_flights_interval", "get_arrivals", "get_departures"}
TokenRequestFailed == call.posts = 1 /\ call.gets = 0
RateLimited == call.gets = 1 /\ call.dr.status = RateLimitStatus
OtherNon2xx ==
    /\ call.gets = 1
    /\ call.dr.status # RateLimitStatus
    /\ ~(200 <= call.dr.status /\ call.dr.status < 300)
EmptyResponseBody == call.gets = 1 /\ call.dr.status = 200 /\ ~call.dr.decodes
RequestFailed == TokenRequestFailed \/ RateLimited \/ OtherNon2xx \/ EmptyResponseBody

\* C11: get_flights_interval, get_arrivals and get_departures never
\* propagate an error, and return the empty frame whenever the underlying
\* request fails: the token request fails, the data endpoint answers 429 or
\* any other non-2xx status, or the response body is empty.
C11_FlightsFailSoft ==
    call.op \in FlightsOps =>
        /\ call.outcome = "ok"
        /\ RequestFailed => call.df = EmptyFrame

\* a flights fetch answered 429 returned the empty frame
C11_Witness ==
    /\ call.op \in FlightsOps
    /\ RateLimited
    /\ call.outcome = "ok"
    /\ call.df = EmptyFrame

(***************************************************************************)
(* The pipeline.  Each property is stated over run: the batch collected,   *)
(* the result of transform_states, of a second transform_states and of     *)
(* aggregate_metrics.                                                      *)
(***************************************************************************)
Transformed == run.step \in {"transformed", "transformed twice", "aggregated"}
In == run.df_raw.rows
NoRows(df) == Len(df.rows) = 0
Out == run.df.rows
\* an output row as it was in the input: without the derived columns
AsCollected(row) == [c \in Range(run.df_raw.columns) |-> row[c]]
Null(row, c) == row[c] = None
Complete(row) ==
    /\ ~Null(row, "latitude") /\ ~Null(row, "longitude")
    /\ ~Null(row, "velocity") /\ ~Null(row, "baro_altitude")
OnGround(row) == row["on_ground"] = Some(TRUE)
Dropped(row) == \A j \in 1..Len(Out) : AsCollected(Out[j]) # row
Kept(row) == \E j \in 1..Len(Out) : AsCollected(Out[j]) = row

\* C12: a collected row whose latitude, longitude, velocity or barometric
\* altitude is null is absent from the output of transform_states whatever
\* its other fields hold; an airborne row with those four fields present is
\* in the output even when its other fields are null.
C12_LoadBearingDrop ==
    (Transformed /\ ~NoRows(run.df_raw)) =>
        /\ run.outcome = "ok"
        /\ \A i \in 1..Len(In) :
              /\ ~Complete(In[i]) => Dropped(In[i])
              /\ (Complete(In[i]) /\ ~OnGround(In[i])) => Kept(In[i])

\* a batch of a row without latitude and an airborne row complete in the four
\* fields but without callsign, country, vertical rate and category: the
\* output is the second row alone
C12_Witness ==
    /\ Transformed
    /\ Len(In) = 2
    /\ Null(In[1], "latitude")
    /\ Complete(In[2]) /\ ~OnGround(In[2])
    /\ Null(In[2], "callsign") /\ Null(In[2], "category") /\ Null(In[2], "vertical_rate")
    /\ Len(Out) = 1
    /\ AsCollected(Out[1]) = In[2]

Qualifies(row) == ~OnGround(row) /\ Complete(row)
Qualifying == SelectSeq(In, Qualifies)
Countries(rows) ==
    {rows[i]["origin_country"][1] :
        i \in {j \in 1..Len(rows) : ~Null(rows[j], "origin_country")}}
Reports(key, value) == key \in DOMAIN run.metrics /\ run.metrics[key] = value
ExactlyQualifying ==
    /\ run.outcome = "ok"
    /\ Len(Out) = Len(Qualifying)
    /\ \A j \in 1..Len(Out) :
          /\ AsCollected(Out[j]) = Qualifying[j]
          /\ ~OnGround(Out[j])

\* C13 as stated: for every non-empty batch the output of transform_states
\* is the qualifying input rows in input order, and aggregate_metrics of it
\* reports total_flights equal to their number and countries equal to the
\* number of their distinct origin countries.
C13_Original ==
    (run.step = "aggregated" /\ ~NoRows(run.df_raw)) =>
        /\ ExactlyQualifying
        /\ Reports("total_flights", Len(Qualifying))
        /\ Reports("countries", Cardinality(Countries(Qualifying)))

\* C13, amended: for every non-empty batch the output of transform_states is
\* exactly the input rows that are airborne and complete in the four fields,
\* in input order; when at least one row qualifies, aggregate_metrics of
\* the output reports total_flights equal to their number and countries
\* equal to the number of their distinct origin countries; when none
\* qualifies it returns the empty summary, which has neither key.
C13_FilterAndCount ==
    (Transformed /\ ~NoRows(run.df_raw)) =>
        /\ ExactlyQualifying
        /\ run.step = "aggregated" =>
              IF Len(Qualifying) > 0
              THEN /\ Reports("total_flights", Len(Qualifying))
                   /\ Reports("countries", Cardinality(Countries(Qualifying)))
              ELSE DOMAIN run.metrics = {}

\* a batch of a grounded row and an airborne one from another country, both
\* complete: one flight, one country
C13_Witness ==
    /\ run.step = "aggregated"
    /\ Len(In) = 2
    /\ OnGround(In[1]) /\ Complete(In[1])
    /\ Qualifies(In[2])
    /\ In[1]["origin_country"] # In[2]["origin_country"]
    /\ Len(Out) = 1
    /\ Reports("total_flights", 1)
    /\ Reports("countries", 1)

\* C14: transform_states applied to its own output returns that output: no
\* further row is dropped, and altitude_ft, speed_knots, both categories
\* and aircraft_type are unchanged.
C14_TransformIdempotent ==
    run.step = "transformed twice" =>
        /\ run.outcome = "ok"
        /\ run.again = run.df

\* a second pass over an output that kept some rows of a batch and dropped
\* others
C14_Witness ==
    /\ run.step = "transformed twice"
    /\ 0 < Len(Out) /\ Len(Out) < Len(In)
    /\ Len(run.again.rows) = Len(Out)
    /\ run.again.rows[1]["speed_knots"] = Out[1]["speed_knots"]

(***************************************************************************)
(* The categories.  A derived value is compared as a cell: Some(Whole(e))  *)
(* is the value exactly e.                                                 *)
(***************************************************************************)
Is(row, c, e) == row[c] = Some(Whole(e))
Labelled(row, c, label) == row[c] = Some(label)
Unlabelled(row, c) == row[c] = None

\* the label of the bin that starts at bins[i], the top edge counted to the
\* top bin
StartingAt(bins, labels, i) == IF i <= Len(labels) THEN labels[i] ELSE labels[Len(labels)]

\* C15 as stated: an output record with altitude_ft exactly 10000 is Medium
\* and one with altitude_ft exactly 0 is Low; in general a value equal to a
\* bin edge has the label of the bin that starts at that edge, and the top
\* edge that of the top bin.
C15_Original ==
    Transformed =>
        \A j \in 1..Len(Out) :
            /\ Is(Out[j], "altitude_ft", 10000) => Labelled(Out[j], "altitude_category", "Medium")
            /\ Is(Out[j], "altitude_ft", 0) => Labelled(Out[j], "altitude_category", "Low")
            /\ \A i \in 1..Len(AltitudeBins) :
                  Is(Out[j], "altitude_ft", AltitudeBins[i]) =>
                      Labelled(Out[j], "altitude_category",
                               StartingAt(AltitudeBins, AltitudeLabels, i))
            /\ \A i \in 1..Len(SpeedBins) :
                  Is(Out[j], "speed_knots", SpeedBins[i]) =>
                      Labelled(Out[j], "speed_category",
                               StartingAt(SpeedBins, SpeedLabels, i))

\* C15, amended: a value equal to a bin edge has the label of the bin that
\* ends at that edge: altitude_ft exactly 10000 is Low, 20000 Medium, 30000
\* High, 45000 Very High, 100000 Extreme; speed_knots exactly 200 is Slow,
\* 350 Medium, 500 Fast, 1000 Very Fast.  The bottom edge belongs to no bin:
\* altitude_ft exactly 0 is unlabelled.
C15_EdgesCloseBins ==
    Transformed =>
        \A j \in 1..Len(Out) :
            /\ Is(Out[j], "altitude_ft", 10000) => Labelled(Out[j], "altitude_category", "Low")
            /\ Is(Out[j], "altitude_ft", 0) => Unlabelled(Out[j], "altitude_category")
            /\ Is(Out[j], "speed_knots", 200) => Labelled(Out[j], "speed_category", "Slow")
            /\ \A i \in 1..Len(AltitudeLabels) :
                  Is(Out[j], "altitude_ft", AltitudeBins[i + 1]) =>
                      Labelled(Out[j], "altitude_category", AltitudeLabels[i])
            /\ \A i \in 1..Len(SpeedLabels) :
                  Is(Out[j], "speed_knots", SpeedBins[i + 1]) =>
                      Labelled(Out[j], "speed_category", SpeedLabels[i])
            /\ ~Is(Out[j], "speed_knots", 0)

\* a batch of a record at exactly 10000 ft and 200 kt, labelled Low and Slow,
\* and a record at exactly 0 ft, without an altitude category
C15_Witness ==
    /\ Transformed
    /\ Len(Out) = 2
    /\ Is(Out[1], "altitude_ft", 10000) /\ Labelled(Out[1], "altitude_category", "Low")
    /\ Is(Out[1], "speed_knots", 200) /\ Labelled(Out[1], "speed_category", "Slow")
    /\ Is(Out[2], "altitude_ft", 0) /\ Unlabelled(Out[2], "altitude_category")

Lowest(bins) == bins[1]
Highest(bins) == bins[Len(bins)]
Outside(cell, bins) == Floor(cell[1]) < Lowest(bins) \/ Above(cell[1], Highest(bins))
AltitudeOutside(row) == Outside(Scaled(row["baro_altitude"], FeetPerMetre), AltitudeBins)
SpeedBeyond(row) ==
    Above(Scaled(row["velocity"], KnotsPerMetreSecond)[1], Highest(SpeedBins))

\* C16: a record whose altitude_ft lies outside [0, 100000] or whose
\* speed_knots lies above 1000 is in the output of transform_states with
\* that category unlabelled; transform_states does not drop it and does not
\* raise.
C16_OutOfRangeKept ==
    Transformed =>
        /\ run.outcome = "ok"
        /\ \A i \in 1..Len(In) :
              (Qualifies(In[i]) /\ (AltitudeOutside(In[i]) \/ SpeedBeyond(In[i]))) =>
                  Kept(In[i])
        /\ \A j \in 1..Len(Out) :
              /\ Outside(Out[j]["altitude_ft"], AltitudeBins) =>
                    Unlabelled(Out[j], "altitude_category")
              /\ Above(Out[j]["speed_knots"][1], Highest(SpeedBins)) =>
                    Unlabelled(Out[j], "speed_category")

\* a batch of a record below sea level and a record above 100000 ft and
\* 1000 kt: both are output, without the categories
C16_Witness ==
    /\ Transformed
    /\ Len(In) = 2 /\ Len(Out) = 2
    /\ Floor(Out[1]["altitude_ft"][1]) < 0
    /\ Unlabelled(Out[1], "altitude_category")
    /\ Above(Out[2]["altitude_ft"][1], 100000)
    /\ Above(Out[2]["speed_knots"][1], 1000)
    /\ Unlabelled(Out[2], "altitude_category")
    /\ Unlabelled(Out[2], "speed_category")

\* C17: every output record has altitude_ft = baro_altitude * 3.28084 and
\* speed_knots = max(1, velocity * 1.94384), so speed_knots is at least 1:
\* 10000 m is 32808.4 ft, 100 m/s is 194.384 kt, and a velocity of 0 gives
\* 1 kt.
C17_UnitConversion ==
    Transformed =>
        \A j \in 1..Len(Out) :
            LET row == Out[j]
                knots == Times(row["velocity"][1], Ratio(194384, 100000))
            IN  /\ row["altitude_ft"] =
                      Some(Times(row["baro_altitude"][1], Ratio(328084, 100000)))
                /\ row["speed_knots"] = IF Floor(knots) < 1 THEN Some(Whole(1)) ELSE Some(knots)
                /\ Floor(row["speed_knots"][1]) >= 1
                /\ Is(row, "baro_altitude", 10000) => row["altitude_ft"] = Some(Ratio(328084, 10))
                /\ Is(row, "velocity", 100) => row["speed_knots"] = Some(Ratio(194384, 1000))
                /\ Is(row, "velocity", 0) => Is(row, "speed_knots", 1)

\* a record at 10000 m and 100 m/s, and a record at rest floored to 1 kt
C17_Witness ==
    /\ Transformed
    /\ Len(Out) = 2
    /\ Is(Out[1], "baro_altitude", 10000) /\ Out[1]["altitude_ft"] = Some(Ratio(328084, 10))
    /\ Is(Out[1], "velocity", 100) /\ Out[1]["speed_knots"] = Some(Ratio(194384, 1000))
    /\ Is(Out[2], "velocity", 0) /\ Is(Out[2], "speed_knots", 1)

\* C18: every output record has an aircraft_type: for a category code 0 to
\* 20 the label of the 21-entry table (code 3 is 'Small (15.5k-75k lbs)'),
\* for every other code and for a null category 'Unknown'.
C18_AircraftType ==
    Transformed =>
        \A j \in 1..Len(Out) :
            LET code == Out[j]["category"]
                type == Out[j]["aircraft_type"]
            IN  /\ "aircraft_type" \in Range(run.df.columns)
                /\ type # None
                /\ Len(AircraftTypes) = 21
                /\ (code # None /\ code[1] \in 0..20) => type = Some(AircraftTypes[code[1] + 1])
                /\ code = Some(0) => type = Some("No Info Available")
                /\ code = Some(3) => type = Some("Small (15.5k-75k lbs)")
                /\ code = Some(20) => type = Some("Line Obstacle")
                /\ (code = None \/ code[1] \notin 0..20) => type = Some("Unknown")

\* a batch of a record of category 3 and a record without category
C18_Witness ==
    /\ Transformed
    /\ Len(Out) = 2
    /\ Out[1]["category"] = Some(3)
    /\ Out[1]["aircraft_type"] = Some("Small (15.5k-75k lbs)")
    /\ Out[2]["category"] = None
    /\ Out[2]["aircraft_type"] = Some("Unknown")

\* C19: transform_states given an empty frame returns that frame as it is,
\* without rows and with no column added: the frame of a response without
\* states, and (on a second pass) an output from which every row was dropped.
C19_EmptyUnchanged ==
    /\ (Transformed /\ NoRows(run.df_raw)) =>
          run.outcome = "ok" /\ run.df = run.df_raw
    /\ (run.step = "transformed twice" /\ NoRows(run.df)) =>
          run.outcome = "ok" /\ run.again = run.df

\* the frame without columns of a response without states came back as it was
C19_Witness ==
    /\ run.step = "transformed"
    /\ run.outcome = "ok"
    /\ run.df_raw = EmptyFrame
    /\ run.df = EmptyFrame

\* C20 as stated: aggregate_metrics of an empty record set returns a summary
\* whose total_flights is 0.
C20_Original ==
    (run.step = "aggregated" /\ NoRows(run.df)) => Reports("total_flights", 0)

\* dict.get(key, default)
Get(d, key, default) == IF key \in DOMAIN d THEN d[key] ELSE default

\* C20, amended: aggregate_metrics of an empty record set raises nothing and
\* returns the empty summary: it has no total_flights (and no other key),
\* and a caller that reads total_flights with the default 0 sees 0.
C20_EmptySummary ==
    (run.step = "aggregated" /\ NoRows(run.df)) =>
        /\ DOMAIN run.metrics = {}
        /\ Get(run.metrics, "total_flights", 0) = 0

\* the summary of an output from which every row of a batch was dropped
C20_Witness ==
    /\ run.step = "aggregated"
    /\ Len(In) > 0
    /\ Len(Out) = 0
    /\ "total_flights" \notin DOMAIN run.metrics

(***************************************************************************)
(* The breakdowns of the summary.                                          *)
(***************************************************************************)
Summarised == run.step = "aggregated" /\ ~NoRows(run.df)
Breakdowns == {"flights_by_country", "flights_by_altitude", "flights_by_type"}
ColumnOf(b) ==
    CASE b = "flights_by_country" -> "origin_country"
      [] b = "flights_by_altitude" -> "altitude_category"
      [] b = "flights_by_type" -> "aircraft_type"
Entries(b) == run.metrics[b]
Keys(b) == {Entries(b)[k].key : k \in 1..Len(Entries(b))}
\* the values the output records hold in a column, and how many records hold v
Held(c) == {Out[j][c][1] : j \in {i \in 1..Len(Out) : ~Null(Out[i], c)}}
Holding(c, v) == Cardinality({j \in 1..Len(Out) : Out[j][c] = Some(v)})
\* every entry is a distinct key with the number of records that hold it
Counts(b) ==
    /\ Cardinality(Keys(b)) = Len(Entries(b))
    /\ \A k \in 1..Len(Entries(b)) :
          Entries(b)[k].count = Holding(ColumnOf(b), Entries(b)[k].key)
\* the entries are at most n keys, none with a lower count than a key left
\* out, and as many as there are keys when those are fewer than n
TopOf(b, n) ==
    /\ Counts(b)
    /\ Len(Entries(b)) <= n
    /\ Len(Entries(b)) >= Min(n, Cardinality(Held(ColumnOf(b))))
    /\ \A v \in Held(ColumnOf(b)) \ Keys(b) :
          \A k \in 1..Len(Entries(b)) : Entries(b)[k].count >= Holding(ColumnOf(b), v)

\* C21 as stated: each of the three breakdowns has at most 10 entries, the
\* 10 keys with the highest counts.
C21_Original == Summarised => \A b \in Breakdowns : TopOf(b, 10)

\* C21, amended: only the breakdown by country is a top-10: at most 10
\* entries, the keys with the highest counts.  The breakdown by altitude
\* category has one entry for each of the five categories, with a count of
\* 0 for a category no record has; the breakdown by aircraft type has one
\* entry for every type a record has, more than 10 when more than 10 types
\* occur.
C21_BreakdownSizes ==
    Summarised =>
        /\ TopOf("flights_by_country", 10)
        /\ Keys("flights_by_country") \subseteq Held("origin_country")
        /\ Counts("flights_by_altitude")
        /\ Keys("flights_by_altitude") = Range(AltitudeLabels)
        /\ Counts("flights_by_type")
        /\ Keys("flights_by_type") = Held("aircraft_type")

\* twelve countries and twelve aircraft types: ten entries by country, twelve
\* by type, five by altitude
C21_Witness ==
    /\ Summarised
    /\ Cardinality(Held("origin_country")) = 12
    /\ Len(Entries("flights_by_country")) = 10
    /\ Len(Entries("flights_by_type")) = 12
    /\ Len(Entries("flights_by_altitude")) = 5

\* the place in the output of the first record that holds v in column c
FirstPlace(c, v) ==
    CHOOSE i \in 1..Len(Out) :
        /\ Out[i][c] = Some(v)
        /\ \A j \in 1..(i - 1) : Out[j][c] # Some(v)
Descending(b) ==
    \A k, l \in 1..Len(Entries(b)) :
        k < l => Entries(b)[k].count >= Entries(b)[l].count
\* keys held by equally many records stand in the order of their first records
TiesAsEncountered(b) ==
    \A k, l \in 1..Len(Entries(b)) :
        /\ k < l
        /\ Entries(b)[k].count = Entries(b)[l].count
        /\ Entries(b)[k].count > 0
        => FirstPlace(ColumnOf(b), Entries(b)[k].key)
              < FirstPlace(ColumnOf(b), Entries(b)[l].key)

\* C22 as stated: the entries of each breakdown are in descending order of
\* count, and keys with equal counts are in first-encounter order.
C22_Original ==
    Summarised => \A b \in Breakdowns : Descending(b) /\ TiesAsEncountered(b)

\* C22, amended: the entries of each breakdown are in descending order of
\* count; the order of keys with equal counts is left open (it need not be
\* the order in which the records were encountered).
C22_DescendingCounts == Summarised => \A b \in Breakdowns : Descending(b)

\* two altitude categories held by equally many records, the one met later
\* listed first, both ahead of a category with a lower count
C22_Witness ==
    /\ Summarised
    /\ LET e == Entries("flights_by_altitude")
       IN  \E k, l, m \in 1..Len(e) :
              /\ k < l /\ l < m
              /\ e[k].count = e[l].count /\ e[l].count > e[m].count
              /\ FirstPlace("altitude_category", e[k].key)
                    > FirstPlace("altitude_category", e[l].key)

RECURSIVE Counts_Sum(_, _)
Counts_Sum(entries, n) ==
    IF n = 0 THEN 0 ELSE Counts_Sum(entries, n - 1) + entries[n].count
CountSum(b) == Counts_Sum(Entries(b), Len(Entries(b)))
UnlabelledAltitudes ==
    Cardinality({i \in 1..Len(Out) : Unlabelled(Out[i], "altitude_category")})

\* C30: in the summary of a non-empty output of transform, the counts by
\* aircraft type add up to total_flights, and the counts by altitude category
\* add up to total_flights less the records with no altitude category.
C30_BreakdownTotals ==
    Summarised =>
        /\ run.metrics["total_flights"] = Len(Out)
        /\ CountSum("flights_by_type") = run.metrics["total_flights"]
        /\ CountSum("flights_by_altitude")
              = run.metrics["total_flights"] - UnlabelledAltitudes

\* two records of one aircraft type, one of them with no altitude category
C30_Witness ==
    /\ Summarised
    /\ run.metrics["total_flights"] = 2
    /\ Len(Entries("flights_by_type")) = 1
    /\ UnlabelledAltitudes = 1
    /\ CountSum("flights_by_altitude") = 1

\* the steps of a pass, by the step it leaves behind
Transforming == run.step = "collected" /\ run'.step = "transformed"
TransformingAgain == run.step = "transformed" /\ run'.step = "transformed twice"
Aggregating == run.step = "transformed" /\ run'.step = "aggregated"
LeavesInput ==
    /\ Transforming => run'.df_raw = run.df_raw
    /\ TransformingAgain => run'.df = run.df /\ run'.df_raw = run.df_raw
    /\ Aggregating => run'.df = run.df /\ run'.df_raw = run.df_raw

\* C23 as stated: no stage changes the rows, columns or values of the frame
\* it is given, and the result of each stage is a new object, distinct from
\* its input.
C23_Original == [][LeavesInput /\ (Transforming => ~run'.same)]_vars

\* C23, amended: no stage changes the rows, columns or values of the frame
\* it is given; the result of transform is a new frame when the input has
\* rows, and the input frame itself when the input is empty.
C23_InputsKept ==
    [][LeavesInput /\ (Transforming => (run'.same <=> NoRows(run.df_raw)))]_vars

\* a batch with a record on the ground went through both stages: the batch
\* is as collected, and the enriched frame is another object with fewer rows
\* and more columns
C23_Witness ==
    /\ Summarised
    /\ ~run.same
    /\ \E i \in 1..Len(In) : OnGround(In[i])
    /\ Len(Out) < Len(In)
    /\ Len(run.df.columns) > Len(run.df_raw.columns)
    /\ run.df_raw \in RawFrames

\* the token request of the latest call brought a token
Obtained(c) == c.posts = 1 /\ ~IsNone(c.token)
Fields == <<access_token, token_expires_at>>
\* a token response that line 35 lets pass and that holds an access_token
Successful(tr) ==
    /\ 200 <= tr.status /\ tr.status < 300
    /\ ~IsNone(tr.body)
    /\ ~IsNone(tr.body[1].access_token)

\* C27: the cached token and expiry change only on a successful token POST,
\* to what that response brought; a failed token request leaves both as they
\* were; no outcome of the data GET touches them, and a call that follows a
\* 401 of the data endpoint before the cached expiry sends the same token
\* again without a token request.
C27_OnlyTokenPostWrites ==
    [][/\ Fields' # Fields =>
            /\ call'.posts = 1
            /\ Successful(call'.tr)
            /\ access_token' = call'.tr.body[1].access_token
            /\ token_expires_at' = Some(CachedExpiry(call'.end, call'.tr.body[1]))
       /\ (call' # call /\ call'.posts = 1 /\ ~Successful(call'.tr)) => Fields' = Fields
       /\ (call' # call /\ call'.posts = 0) => Fields' = Fields
       /\ (/\ call.gets = 1 /\ call.dr.status = 401
           /\ call' # call
           /\ call'.t < token_expires_at[1]) =>
              /\ call'.posts = 0
              /\ call'.gets = 1 => call'.bearer = call.bearer]_vars

\* a cached token was sent, the data endpoint answered 401, and the token and
\* its expiry are still cached and still valid
C27_Witness ==
    /\ call.op = "get_states"
    /\ call.posts = 0
    /\ call.gets = 1
    /\ call.dr.status = 401
    /\ call.outcome = "HTTPError"
    /\ access_token = call.bearer
    /\ token_expires_at = call.cached_expiry
    /\ CacheValid(access_token, token_expires_at, now)

\* C28: the two fields are both unset or both set, and set by one token
\* response: after a call that obtained a token they hold that response's
\* token and the expiry computed from it, after any other call what they
\* held before; once set they are never unset.
C28_FieldsPaired ==
    /\ IsNone(access_token) <=> IsNone(token_expires_at)
    /\ IsNone(access_token) <=> IsNone(issued_at)
    /\ call.op # "none" =>
          IF Obtained(call)
          THEN /\ access_token = call.tr.body[1].access_token
               /\ token_expires_at = Some(CachedExpiry(call.end, call.tr.body[1]))
               /\ issued_at = Some(call.end)
          ELSE /\ access_token = call.cached_token
               /\ token_expires_at = call.cached_expiry
               /\ issued_at = call.cached_issued_at
    /\ ~IsNone(call.cached_token) => ~IsNone(access_token)

\* a token request failed on a client that held an expired token: the token
\* and its expiry are still the ones of the earlier response
C28_Witness ==
    /\ call.posts = 1
    /\ call.outcome = "HTTPError"
    /\ ~IsNone(call.cached_token)
    /\ access_token = call.cached_token
    /\ token_expires_at = call.cached_expiry
    /\ ~IsNone(token_expires_at)

\* the lifetime the identity provider gave the cached token
Lifetime(expiry, issued) == expiry[1] - issued[1]

\* C29: a token issued with expires_in <= 300 is cached with an expiry not
\* later than its time of issue, the cache never counts as valid, and every
\* call made while it is cached issues a token POST.
C29_ShortLivedNeverHits ==
    /\ (~IsNone(access_token) /\ Lifetime(real_expiry, issued_at) <= 300) =>
          /\ token_expires_at[1] <= issued_at[1]
          /\ ~CacheValid(access_token, token_expires_at, now)
    /\ (/\ call.op # "none"
        /\ ~IsNone(call.cached_token)
        /\ Lifetime(call.cached_real_expiry, call.cached_issued_at) <= 300) =>
          call.posts = 1

\* a token issued for 300 seconds was cached, and the next call, a second
\* later, asked for a token again and got another
C29_Witness ==
    /\ call.op = "get_states"
    /\ ~IsNone(call.cached_token)
    /\ Lifetime(call.cached_real_expiry, call.cached_issued_at) = 300
    /\ call.t = call.cached_issued_at[1] + 1
    /\ call.posts = 1
    /\ Obtained(call)
    /\ call.gets = 1

\* the next statement of a caller inside _get_access_token can be executed
CanMove(c) ==
    \/ ENABLED Call(c)
    \/ ENABLED CheckExpiry(c)
    \/ ENABLED PostToken(c)
    \/ ENABLED WriteToken(c)
    \/ ENABLED WriteExpiry(c)
    \/ ENABLED ReturnToken(c)
Inside(c) == threads[c].pc \in {"check", "post", "token", "expiry", "return"}
Posted(c) == threads[c].tr # NoTokenResponse

\* C25: nothing guards the check and the two writes of the token cache: a
\* caller that is about to enter or is inside _get_access_token can always
\* execute its next statement, wherever the other caller stands, and a
\* caller that finds the cache not valid at the check goes on to the POST
\* even when the other is already between its check and its writes.
C25_UnguardedCache ==
    \A c \in Callers :
        /\ (threads[c].pc = "out" \/ Inside(c)) => CanMove(c)
        /\ (threads[c].pc = "check"
              /\ ~CacheValid(access_token, token_expires_at, now)) =>
                ENABLED (CheckExpiry(c) /\ threads'[c].pc = "post")

\* both callers passed the check of an expired token and posted, and their
\* writes interleaved: the cache holds the token of one response with the
\* expiry of the other
C25_Witness ==
    \E c, d \in Callers :
        /\ c # d
        /\ threads[c].pc = "returned" /\ threads[d].pc = "returned"
        /\ Posted(c) /\ Posted(d)
        /\ access_token = threads[c].tr.body[1].access_token
        /\ access_token # threads[d].tr.body[1].access_token
        /\ token_expires_at = threads[d].wrote
        /\ token_expires_at # threads[c].wrote

IsPrefix(s, t) == Len(s) <= Len(t) /\ s = SubSeq(t, 1, Len(s))
Ran(step) == step \in Range(cycle.steps)

\* C24: the steps of a refresh are collect, authenticate, fetch, transform,
\* aggregate, in this order, as far as the refresh gets (dash_app_ultimate
\* does not aggregate); a data GET comes straight after the authenticate step
\* of the same refresh and carries the token that step returned; transform
\* and aggregate run only after the fetch has returned.
C24_StepOrder ==
    /\ IsPrefix(cycle.steps,
                << "collect", "authenticate", "fetch", "transform", "aggregate" >>)
    /\ (cycle.app = "dash_app_ultimate") => ~Ran("aggregate")
    /\ cycle.gets = 1 <=> Ran("fetch")
    /\ Ran("fetch") =>
          /\ Ran("authenticate")
          /\ ~IsNone(cycle.token)
          /\ cycle.bearer = cycle.token
    /\ (Ran("transform") \/ Ran("aggregate")) => cycle.fetched
    /\ (cycle.pc = "returned" /\ IsNone(cycle.raised) /\ cycle.app # "dash_app_ultimate")
          => Ran("aggregate")

\* a refresh of dash_app that found the token of an earlier refresh cached
\* ran all five steps and sent that token
C24_Witness ==
    /\ cycle.app = "dash_app"
    /\ cycle.pc = "returned"
    /\ cycle.steps = << "collect", "authenticate", "fetch", "transform", "aggregate" >>
    /\ cycle.posts = 0
    /\ cycle.bearer = access_token
    /\ ~NoRows(cycle.df)

\* the outputs the dashboards show for no data and for an error
Placeholder(app) ==
    CASE app = "dash_app" -> << None, << "0" >>, << "0" >>, << "0 ft" >>, << "0 kts" >> >>
      [] app = "dash_app_pro" ->
           << None, << "0" >>, << "0" >>, << "0 ft" >>, << "0 kts" >>, << "0" >>, << "0" >>,
              << [label |-> << "All Countries" >>, value |-> Some("all")] >>,
              << "No data" >> >>
      [] app = "dash_app_ultimate" ->
           << None, << [label |-> << "All Countries" >>, value |-> Some("all")] >>,
              << "No data" >> >>
ErrorBanner(app, e) ==
    CASE app = "dash_app" ->
           << None, << "Error" >>, << "Error" >>, << "Error" >>, << "Error" >> >>
      [] app = "dash_app_pro" ->
           << None, << "Error" >>, << "Error" >>, << "Error" >>, << "Error" >>,
              << "Error" >>, << "Error" >>,
              << [label |-> << "All" >>, value |-> Some("all")] >>, << "Error" >> >>
      [] app = "dash_app_ultimate" ->
           << None, << [label |-> << "All" >>, value |-> Some("all")] >>,
              << "Error: ", e >> >>
Errors == {ErrorBanner(app, e) : app \in Apps, e \in Exceptions}

\* C26: update_data always returns: no exception leaves it.  When collect,
\* transform or aggregate raised, it returns the error outputs of the
\* dashboard, the stored data None; when the enriched frame is empty it
\* returns the no-data outputs, the stored data None and the metrics zero;
\* otherwise it returns the data, or the error outputs.
C26_NeverRaises ==
    /\ cycle.pc # "propagated"
    /\ cycle.pc = "returned" =>
          /\ ~IsNone(cycle.raised) =>
                cycle.outputs = ErrorBanner(cycle.app, cycle.raised[1])
          /\ (IsNone(cycle.raised) /\ NoRows(cycle.df)) =>
                cycle.outputs = Placeholder(cycle.app)
          /\ (IsNone(cycle.raised) /\ ~NoRows(cycle.df)) =>
                \/ ~IsNone(cycle.outputs[1])
                \/ cycle.outputs \in Errors
          /\ (~IsNone(cycle.raised) \/ NoRows(cycle.df)) => IsNone(cycle.outputs[1])

\* the data endpoint refused the token: dash_app_pro returned the error
\* outputs
C26_Witness ==
    /\ cycle.app = "dash_app_pro"
    /\ cycle.pc = "returned"
    /\ cycle.steps = << "collect", "authenticate", "fetch" >>
    /\ cycle.raised = Some("HTTPError")
    /\ cycle.outputs[1] = None
    /\ cycle.outputs[2] = << "Error" >>
    /\ Len(cycle.outputs) = 9

====
